---------------------------- MODULE Spec2Model ----------------------------
(***************************************************************************)
(* A model of the AI article generator's server: the topic and image       *)
(* aggregators (routes/topics.js, routes/images.js), the article store and *)
(* its handlers (routes/articles.js, models/Article.js), the profile       *)
(* handler (routes/auth.js) and the blog publisher (routes/blog.js).       *)
(*                                                                         *)
(* Three specifications share the variables:                               *)
(*   SpecTopics  - requests to /api/topics/trending and /api/topics/search *)
(*   SpecImages  - requests to /api/images/search|trending|random          *)
(*   Spec        - requests to /api/articles, /api/auth/profile and        *)
(*                 /api/blog/post against the stored users and articles    *)
(***************************************************************************)
EXTENDS Integers, Sequences, FiniteSets, TLC

VARIABLES
  env,       \* process.env: which optional provider keys are set
  tresp,     \* the last topics request and its response
  iresp,     \* the last images request and its response
  users,     \* the User collection
  articles,  \* the Article collection
  now,       \* the clock (Date.now), one tick per request
  last,      \* the last store request and its response
  fresp,     \* the last call of a pure function of the generation pipeline
  limiter,   \* the rate limiter: its Map, the clock and its last answer
  inflight   \* the requests between their read and their save

vars == <<env, tresp, iresp, users, articles, now, last, fresp, limiter, inflight>>

(***************************************************************************)
(* Bounds of the model                                                     *)
(***************************************************************************)
MaxNews == 2        \* longest enumerated list a news call returns

(***************************************************************************)
(* JavaScript helpers                                                      *)
(***************************************************************************)
Min(a, b) == IF a <= b THEN a ELSE b
Max(a, b) == IF a >= b THEN a ELSE b

\* Array.prototype.slice(0, end), end an integer (negative counts from the end)
slice0_all(s, end) == s

slice0(s, end) ==
  IF end >= 0 THEN SubSeq(s, 1, Min(end, Len(s)))
  ELSE SubSeq(s, 1, Max(0, Len(s) + end))

\* the sequences over S of length at most n
SeqUpTo(S, n) == UNION {[1..k -> S] : k \in 0..n}

RECURSIVE Flatten(_)
Flatten(ss) == IF ss = <<>> THEN <<>> ELSE Head(ss) \o Flatten(Tail(ss))

(***************************************************************************)
(* routes/topics.js                                                        *)
(***************************************************************************)
TrendingCap == 20
DefaultLimit == 10

Title(kind, niche, keyword, n) ==
  [kind |-> kind, niche |-> niche, keyword |-> keyword, n |-> n]

Topic(title, source, url) == [title |-> title, source |-> source, url |-> url]

\* a provider wrapper ends by returning a list or by throwing
Returned(items) == [threw |-> FALSE, items |-> items]
Threw == [threw |-> TRUE, items |-> <<>>]

\* the outcome of an outbound HTTP call: the response's items, or a failure
\* (network error, non-2xx status, malformed body)
CallOk(items) == [ok |-> TRUE, items |-> items, called |-> TRUE]
CallFailed == [ok |-> FALSE, items |-> <<>>, called |-> TRUE]
\* the call was never issued (its provider key is not configured)
NotCalled == [ok |-> FALSE, items |-> <<>>, called |-> FALSE]

\* getGoogleTrends: simulated data, one item
getGoogleTrends(niche) ==
  Returned(<<Topic(Title("trends2024", niche, "", 0), "Google Trends", "")>>)

\* getNewsTopics: axios.get inside try; catch returns []
getNewsTopics_rethrows(call) ==
  IF call.ok THEN Returned(call.items) ELSE Threw

getNewsTopics(call) ==
  IF call.ok THEN Returned(call.items) ELSE Returned(<<>>)

\* getRedditTopics: simulated, one item
getRedditTopics(niche) ==
  Returned(<<Topic(Title("reddit", niche, "", 0), "Reddit", "")>>)

\* getTwitterTopics: simulated, one item
getTwitterTopics(niche) ==
  Returned(<<Topic(Title("twitter", niche, "", 0), "Twitter", "")>>)

\* searchNewsTopics: axios.get inside try; catch returns []
searchNewsTopics(call) ==
  IF call.ok THEN Returned(call.items) ELSE Returned(<<>>)

\* searchRedditTopics: simulated, one item
searchRedditTopics(keyword, niche) ==
  Returned(<<Topic(Title("redditsearch", niche, keyword, 0), "Reddit", "")>>)

\* removeDuplicates: filter with a Set of the titles seen so far
RECURSIVE rdLoop(_, _, _, _)
rdLoop(topics, i, seen, out) ==
  IF i > Len(topics) THEN out
  ELSE LET duplicate == topics[i].title \in seen
       IN rdLoop(topics, i + 1, seen \cup {topics[i].title},
                 IF duplicate THEN out ELSE Append(out, topics[i]))

RECURSIVE rdLastLoop(_, _, _)
rdLastLoop(topics, i, out) ==
  IF i > Len(topics) THEN out
  ELSE LET later == \E j \in (i + 1)..Len(topics) : topics[j].title = topics[i].title
       IN rdLastLoop(topics, i + 1, IF later THEN out ELSE Append(out, topics[i]))

removeDuplicates_keepsLast(topics) == rdLastLoop(topics, 1, <<>>)

removeDuplicates(topics) == rdLoop(topics, 1, {}, <<>>)

\* getFallbackTopics: the curated table, else one generic item
CuratedNiches == {"technology", "health", "business"}

getFallbackTopics(niche) ==
  IF niche \in CuratedNiches
  THEN <<Topic(Title("curated", niche, "", 1), "Fallback", ""),
         Topic(Title("curated", niche, "", 2), "Fallback", "")>>
  ELSE <<Topic(Title("insights", niche, "", 0), "Fallback", "")>>

\* the providers getTrendingTopics calls, in its order, with what each returned
TrendingCalls(niche, newsCall) ==
  (IF env.GOOGLE_TRENDS_API_KEY
   THEN <<[name |-> "google", out |-> getGoogleTrends(niche)]>> ELSE <<>>)
  \o (IF env.NEWS_API_KEY
      THEN <<[name |-> "news", out |-> getNewsTopics(newsCall)]>> ELSE <<>>)
  \o <<[name |-> "reddit", out |-> getRedditTopics(niche)]>>
  \o <<[name |-> "twitter", out |-> getTwitterTopics(niche)]>>

\* getTrendingTopics: push each provider's list, dedupe, slice(0, 20);
\* an exception anywhere in the try gives the fallback list
getTrendingTopics(niche, newsCall) ==
  LET calls == TrendingCalls(niche, newsCall)
  IN IF \E i \in 1..Len(calls) : calls[i].out.threw
     THEN getFallbackTopics(niche)
     ELSE slice0(removeDuplicates(Flatten([i \in 1..Len(calls) |-> calls[i].out.items])),
                 TrendingCap)

SearchCalls(keyword, niche, newsCall) ==
  (IF env.NEWS_API_KEY
   THEN <<[name |-> "news", out |-> searchNewsTopics(newsCall)]>> ELSE <<>>)
  \o <<[name |-> "reddit", out |-> searchRedditTopics(keyword, niche)]>>

\* searchTopics: push each provider's list, dedupe, slice(0, limit);
\* an exception anywhere in the try gives []
searchTopics(keyword, niche, limit, newsCall) ==
  LET calls == SearchCalls(keyword, niche, newsCall)
  IN IF \E i \in 1..Len(calls) : calls[i].out.threw
     THEN <<>>
     ELSE slice0(removeDuplicates(Flatten([i \in 1..Len(calls) |-> calls[i].out.items])),
                 limit)

(* the inputs of the topics requests *)
NicheInputs == {"technology", "travel"}
KeywordInputs == {"ai"}
LimitInputs == {0, 1, 2, DefaultLimit}

NewsTitles(niche, keyword) ==
  {Title("news", "", "", n) : n \in 1..2}
    \cup {Title("reddit", niche, "", 0), Title("redditsearch", niche, keyword, 0)}

NewsItems(niche, keyword) ==
  {Topic(t, "News API", u) : t \in NewsTitles(niche, keyword), u \in {"u1", "u2"}}

\* more distinct headlines than the trending cap keeps
LongNews == [i \in 1..(TrendingCap + 1) |->
               Topic(Title("news", "", "", i), "News API", "u1")]

\* what the news call can end with; no call is issued without NEWS_API_KEY
NewsCalls(niche, keyword) ==
  IF env.NEWS_API_KEY
  THEN {CallFailed, CallOk(LongNews)}
         \cup {CallOk(s) : s \in SeqUpTo(NewsItems(niche, keyword), MaxNews)}
  ELSE {NotCalled}

NoTResp ==
  [op |-> "none", code |-> 0, niche |-> "", keyword |-> "", limit |-> 0,
   newsCall |-> NotCalled, topics |-> <<>>]

\* GET /api/topics/trending
TopicsTrending ==
  /\ tresp.op = "none"
  /\ \E niche \in NicheInputs \cup {""} :
       \E newsCall \in NewsCalls(niche, "") :
         tresp' =
           IF niche = ""
           THEN [NoTResp EXCEPT !.op = "trending", !.code = 400]
           ELSE [NoTResp EXCEPT !.op = "trending", !.code = 200, !.niche = niche,
                                !.newsCall = newsCall,
                                !.topics = getTrendingTopics(niche, newsCall)]
  /\ UNCHANGED <<env, iresp, users, articles, now, last, fresp, limiter, inflight>>

\* GET /api/topics/search
TopicsSearch ==
  /\ tresp.op = "none"
  /\ \E keyword \in KeywordInputs \cup {""} :
       \E niche \in NicheInputs \cup {"undefined"} :
         \E limit \in LimitInputs :
           \E newsCall \in NewsCalls(niche, keyword) :
             tresp' =
               IF keyword = ""
               THEN [NoTResp EXCEPT !.op = "search", !.code = 400]
               ELSE [NoTResp EXCEPT !.op = "search", !.code = 200, !.niche = niche,
                                    !.keyword = keyword, !.limit = limit,
                                    !.newsCall = newsCall,
                                    !.topics = searchTopics(keyword, niche, limit, newsCall)]
  /\ UNCHANGED <<env, iresp, users, articles, now, last, fresp, limiter, inflight>>

\* res.json(...): the response is sent and the request is over
TopicsReply ==
  /\ tresp.op # "none"
  /\ tresp' = NoTResp
  /\ UNCHANGED <<env, iresp, users, articles, now, last, fresp, limiter, inflight>>

(***************************************************************************)
(* routes/images.js                                                        *)
(***************************************************************************)
DefaultPerPage == 20
DefaultTrendingLimit == 10
DefaultCount == 5
MaxImgs == 2        \* longest list a photo search call returns (search, random)
MaxTrendImgs == 1   \* longest list a photo search call returns (trending)

Url(kind, a, b) == <<kind, a, b>>
Image(url, source) == [url |-> url, source |-> source]

\* searchUnsplash: axios.get inside try; catch returns []
searchUnsplash(call) ==
  IF call.ok THEN Returned(call.items) ELSE Returned(<<>>)

\* searchPexels: axios.get inside try; catch returns []
searchPexels(call) ==
  IF call.ok THEN Returned(call.items) ELSE Returned(<<>>)

\* removeDuplicateImages: filter with a Set of the urls seen so far
RECURSIVE rdiLoop(_, _, _, _)
rdiLoop(images, i, seen, out) ==
  IF i > Len(images) THEN out
  ELSE LET duplicate == images[i].url \in seen
       IN rdiLoop(images, i + 1, seen \cup {images[i].url},
                  IF duplicate THEN out ELSE Append(out, images[i]))

removeDuplicateImages(images) == rdiLoop(images, 1, {}, <<>>)

\* getFallbackImages: two placeholder records naming the query
getFallbackImages(query) ==
  <<Image(Url("placeholder", "4A90E2", query), "Placeholder"),
    Image(Url("placeholder", "50C878", query), "Placeholder")>>

\* searchImages: push each configured provider's list, dedupe, slice(0, perPage);
\* an exception anywhere in the try gives the placeholders
searchImages(query, perPage, call) ==
  LET outs == (IF env.UNSPLASH_ACCESS_KEY THEN <<searchUnsplash(call.unsplash)>> ELSE <<>>)
              \o (IF env.PEXELS_API_KEY THEN <<searchPexels(call.pexels)>> ELSE <<>>)
  IN IF \E i \in 1..Len(outs) : outs[i].threw
     THEN getFallbackImages(query)
     ELSE slice0(removeDuplicateImages(Flatten([i \in 1..Len(outs) |-> outs[i].items])),
                 perPage)

\* trendingQueries[niche] || [niche]
trendingQueries(niche) ==
  IF niche = "technology"
  THEN <<"laptop", "smartphone", "coding", "artificial intelligence">>
  ELSE IF niche = "health"
  THEN <<"fitness", "healthy food", "meditation", "workout">>
  ELSE <<niche>>   \* (the table's other ten niches are not among the inputs)

\* Math.ceil(a / b) for a >= 0, b > 0
CeilDiv(a, b) == (a + b - 1) \div b

\* getTrendingImages: one searchImages per query of queries.slice(0, 3),
\* results pushed in order, then slice(0, limit)
QueriesToRun == 3
getTrendingImages(niche, limit, calls) ==
  LET queries == slice0(trendingQueries(niche), QueriesToRun)
      perQuery == [q \in 1..Len(queries) |->
                     searchImages(queries[q], CeilDiv(limit, QueriesToRun), calls[q])]
  IN slice0(Flatten(perQuery), limit)

\* shuffleArray: Fisher-Yates; rnd[i] is Math.floor(Math.random() * (i + 1))
\* for the 0-based index i
swap(s, a, b) == [s EXCEPT ![a] = s[b], ![b] = s[a]]

RECURSIVE shuffleLoop(_, _, _)
shuffleLoop(shuffled, i, rnd) ==
  IF i <= 0 THEN shuffled
  ELSE shuffleLoop(swap(shuffled, i + 1, rnd[i] + 1), i - 1, rnd)

shuffleArray(array, rnd) == shuffleLoop(array, Len(array) - 1, rnd)

\* getRandomImages: searchImages with perPage = count * 2, shuffle, slice(0, count)
getRandomImages(topic, count, call, rnd) ==
  slice0(shuffleArray(searchImages(topic, count * 2, call), rnd), count)

(* the inputs of the images requests *)
PhotoUrls == {"a", "b", "c"}
TrendPhotoUrls == {"a", "b"}

PhotoCalls(key, source, urls, n) ==
  IF key
  THEN {CallFailed} \cup {CallOk(s) : s \in SeqUpTo({Image(Url("photo", u, ""), source) : u \in urls}, n)}
  ELSE {NotCalled}

ImageCalls(urls, n) ==
  {[unsplash |-> u, pexels |-> p] :
     u \in PhotoCalls(env.UNSPLASH_ACCESS_KEY, "Unsplash", urls, n),
     p \in PhotoCalls(env.PEXELS_API_KEY, "Pexels", urls, n)}

\* the random draws of one shuffle of a list of n items
RandomDraws(n) == {r \in [1..(n - 1) -> 0..(n - 1)] : \A i \in 1..(n - 1) : r[i] <= i}

NoIResp ==
  [op |-> "none", code |-> 0, query |-> "", size |-> 0, calls |-> <<>>,
   images |-> <<>>]

\* GET /api/images/search
ImagesSearch ==
  /\ iresp.op = "none"
  /\ \E query \in {"", "cats"}, niche \in {"", "technology"} :
       \E perPage \in {1, 2, DefaultPerPage} :
         \E call \in ImageCalls(PhotoUrls, MaxImgs) :
           iresp' =
             IF query = "" /\ niche = ""
             THEN [NoIResp EXCEPT !.op = "search", !.code = 400]
             ELSE LET searchQuery == IF query # "" THEN query ELSE niche
                  IN [NoIResp EXCEPT !.op = "search", !.code = 200,
                                     !.query = searchQuery, !.size = perPage,
                                     !.calls = <<call>>,
                                     !.images = searchImages(searchQuery, perPage, call)]
  /\ UNCHANGED <<env, tresp, users, articles, now, last, fresp, limiter, inflight>>

\* GET /api/images/trending
ImagesTrending ==
  /\ iresp.op = "none"
  /\ \E niche \in {"", "technology", "gardening"} :
       \E limit \in {2, 4, DefaultTrendingLimit} :
         \E calls \in [1..Min(Len(trendingQueries(niche)), QueriesToRun)
                         -> ImageCalls(TrendPhotoUrls, MaxTrendImgs)] :
           iresp' =
             IF niche = ""
             THEN [NoIResp EXCEPT !.op = "trending", !.code = 400]
             ELSE [NoIResp EXCEPT !.op = "trending", !.code = 200,
                                  !.query = niche, !.size = limit, !.calls = calls,
                                  !.images = getTrendingImages(niche, limit, calls)]
  /\ UNCHANGED <<env, tresp, users, articles, now, last, fresp, limiter, inflight>>

\* GET /api/images/random
ImagesRandom ==
  /\ iresp.op = "none"
  /\ \E topic \in {"", "cats"} :
       \E count \in {1, 2, DefaultCount} :
         \E call \in ImageCalls(PhotoUrls, MaxImgs) :
           \E rnd \in RandomDraws(Len(searchImages(topic, count * 2, call))) :
             iresp' =
               IF topic = ""
               THEN [NoIResp EXCEPT !.op = "random", !.code = 400]
               ELSE [NoIResp EXCEPT !.op = "random", !.code = 200,
                                    !.query = topic, !.size = count,
                                    !.calls = <<call>>,
                                    !.images = getRandomImages(topic, count, call, rnd)]
  /\ UNCHANGED <<env, tresp, users, articles, now, last, fresp, limiter, inflight>>
\* res.json(...): the response is sent and the request is over
ImagesReply ==
  /\ iresp.op # "none"
  /\ iresp' = NoIResp
  /\ UNCHANGED <<env, tresp, users, articles, now, last, fresp, limiter, inflight>>

(***************************************************************************)
(* Text: a JavaScript string is a sequence of one-character strings        *)
(***************************************************************************)
IsWs(c) == c \in {" ", "\n", "\t"}

\* content.split(/\s+/).length: one more than the number of whitespace runs
WordCount(s) ==
  1 + Cardinality({i \in 1..Len(s) : IsWs(s[i]) /\ (i = 1 \/ ~IsWs(s[i - 1]))})

RECURSIVE FirstNonWs(_, _)
FirstNonWs(s, i) == IF i > Len(s) \/ ~IsWs(s[i]) THEN i ELSE FirstNonWs(s, i + 1)

RECURSIVE LastNonWs(_, _)
LastNonWs(s, i) == IF i < 1 \/ ~IsWs(s[i]) THEN i ELSE LastNonWs(s, i - 1)

\* String.prototype.trim
trim(s) == SubSeq(s, FirstNonWs(s, 1), LastNonWs(s, Len(s)))

startsWith(s, prefix) ==
  Len(s) >= Len(prefix) /\ SubSeq(s, 1, Len(prefix)) = prefix

\* the k-th smallest member of a set of positions
KthOf(F, k) == CHOOSE i \in F : Cardinality({j \in F : j <= i}) = k

\* content.split('\n')
splitLines(s) ==
  LET NL == {i \in 1..Len(s) : s[i] = "\n"}
      n == Cardinality(NL)
  IN [k \in 1..(n + 1) |->
        SubSeq(s, IF k = 1 THEN 1 ELSE KthOf(NL, k - 1) + 1,
                  IF k = n + 1 THEN Len(s) ELSE KthOf(NL, k) - 1)]

TITLE == <<"T", "I", "T", "L", "E", ":">>
CONTENT == <<"C", "O", "N", "T", "E", "N", "T", ":">>
GeneratedArticle ==
  <<"G", "e", "n", "e", "r", "a", "t", "e", "d", " ", "A", "r", "t", "i", "c", "l", "e">>

\* the for loop of parseGeneratedContent over the lines
RECURSIVE parseLoop(_, _, _)
parseLoop(lines, i, acc) ==
  IF i > Len(lines) THEN acc
  ELSE LET line == lines[i]
       IN parseLoop(lines, i + 1,
            IF startsWith(line, TITLE)
            THEN [acc EXCEPT !.title = trim(SubSeq(line, Len(TITLE) + 1, Len(line)))]
            ELSE IF startsWith(line, CONTENT)
            THEN [acc EXCEPT !.isContent = TRUE]
            ELSE IF acc.isContent
            THEN [acc EXCEPT !.articleContent = acc.articleContent \o line \o <<"\n">>]
            ELSE acc)

\* content.split('\n\n'): parts[0] and parts.slice(1).join('\n\n'), which is
\* the text after the first blank-line boundary ("" when there is none)
splitBlank(s) ==
  LET D == {i \in 1..(Len(s) - 1) : s[i] = "\n" /\ s[i + 1] = "\n"}
  IN IF D = {} THEN [first |-> s, rest |-> <<>>]
     ELSE LET d == KthOf(D, 1)
          IN [first |-> SubSeq(s, 1, d - 1), rest |-> SubSeq(s, d + 2, Len(s))]

\* the scan of parseGeneratedContent: title, articleContent after the loop
scanLines(content) ==
  parseLoop(splitLines(content), 1,
            [title |-> <<>>, articleContent |-> <<>>, isContent |-> FALSE])

\* if (!title && !articleContent): the fallback branch is taken
usesFallback(content) ==
  scanLines(content).title = <<>> /\ scanLines(content).articleContent = <<>>

\* parseGeneratedContent
parseGeneratedContent(content) ==
  LET scanned == scanLines(content)
      fallback == usesFallback(content)
      parts == splitBlank(content)
      title == IF ~fallback THEN scanned.title
               ELSE IF parts.first # <<>> THEN parts.first ELSE GeneratedArticle
      articleContent == IF ~fallback THEN scanned.articleContent
                        ELSE IF parts.rest # <<>> THEN parts.rest ELSE content
  IN [title |-> IF title # <<>> THEN title ELSE GeneratedArticle,
      content |-> IF trim(articleContent) # <<>> THEN trim(articleContent) ELSE content]

\* the outcome of openai.chat.completions.create: the message text, a null
\* message text, or a rejection
GenFailed == [ok |-> FALSE, isNull |-> FALSE, text |-> <<>>]
GenNull == [ok |-> TRUE, isNull |-> TRUE, text |-> <<>>]
GenText(t) == [ok |-> TRUE, isNull |-> FALSE, text |-> t]

GenThrew == [threw |-> TRUE, title |-> <<>>, content |-> <<>>, wordCount |-> 0]

\* generateArticle: the provider call, the parse and the word count, all in
\* one try; anything thrown is rethrown as 'Failed to generate article with AI'
generateArticle_placeholderOnFailure(call) ==
  IF ~call.ok \/ call.isNull
  THEN [threw |-> FALSE, title |-> GeneratedArticle,
        content |-> [i \in 1..199 |-> IF i % 2 = 1 THEN "p" ELSE " "], wordCount |-> 100]
  ELSE LET parsed == parseGeneratedContent(call.text)
       IN [threw |-> FALSE, title |-> parsed.title, content |-> parsed.content,
           wordCount |-> WordCount(parsed.content)]

generateArticle(call) ==
  IF ~call.ok \/ call.isNull THEN GenThrew
  ELSE LET parsed == parseGeneratedContent(call.text)
       IN [threw |-> FALSE, title |-> parsed.title, content |-> parsed.content,
           wordCount |-> WordCount(parsed.content)]

(***************************************************************************)
(* models/Article.js, models/User.js                                       *)
(***************************************************************************)
MinWordCount == 100
TitleMaxLength == 200
MaxTime == 2        \* requests served in one behaviour
MaxLines == 4       \* lines of an enumerated completion text
MaxClock == 5       \* latest time of a rate-limited request
MaxServed == 5      \* rate-limited requests in one behaviour

UserIds == {"u1", "u2"}
ArticleIds == {"a1", "a2"}

Niches == {"technology", "health", "business", "lifestyle", "entertainment", "sports",
           "education", "travel", "food", "fashion", "science", "politics"}
Tones == {"professional", "casual", "friendly", "authoritative"}
Statuses == {"draft", "review", "published", "archived"}
BlogStatuses == {"draft", "private", "publish"}
Voices == {"professional", "casual", "friendly", "authoritative", "conversational"}
Complexities == {"simple", "moderate", "advanced"}
Structures == {"traditional", "storytelling", "list-based", "question-answer"}

\* a writing style is a record of the style fields that are set
ValidStyle(ws) ==
  /\ DOMAIN ws \subseteq {"voice", "complexity", "structure", "examples", "quotes",
                          "callToAction", "customInstructions"}
  /\ ("voice" \in DOMAIN ws => ws.voice \in Voices)
  /\ ("complexity" \in DOMAIN ws => ws.complexity \in Complexities)
  /\ ("structure" \in DOMAIN ws => ws.structure \in Structures)

\* the defaults of UserSchema.writingStyle
DefaultStyle ==
  [voice |-> "professional", complexity |-> "moderate", structure |-> "traditional",
   examples |-> TRUE, quotes |-> FALSE, callToAction |-> TRUE]

EmptyBlogPost ==
  [postId |-> "", postUrl |-> "", publishedAt |-> 0, status |-> "draft", featuredImage |-> ""]

\* the schema validators Mongoose runs on save, before the pre('save') hooks
ValidArticle(doc) ==
  /\ doc.title # <<>> /\ Len(doc.title) <= TitleMaxLength
  /\ doc.content # <<>>
  /\ doc.topic # ""
  /\ doc.niche \in Niches
  /\ ValidStyle(doc.writingStyle)
  /\ doc.wordCount >= MinWordCount
  /\ doc.tone \in Tones
  /\ doc.status \in Statuses
  /\ doc.blogPost.status \in BlogStatuses

\* ArticleSchema.pre('save'): recount the words when content was modified
preSave_keepsCount(doc, stored) == doc

preSave(doc, stored) ==
  IF doc.content # stored.content
  THEN [doc EXCEPT !.wordCount = WordCount(doc.content)]
  ELSE doc

\* article.save() of a loaded document: validation, the hook, the timestamps
\* plugin (updatedAt when something was modified); a validation error rejects
SaveResult(doc, stored, t) ==
  IF ~ValidArticle(doc) THEN [ok |-> FALSE, doc |-> stored]
  ELSE LET hooked == preSave(doc, stored)
       IN [ok |-> TRUE,
           doc |-> IF hooked # stored THEN [hooked EXCEPT !.updatedAt = t] ELSE hooked]

\* Article.findOne({ _id, userId })
FindOwned_anyUser(id, u) == id \in DOMAIN articles

FindOwned(id, u) == id \in DOMAIN articles /\ articles[id].userId = u


(***************************************************************************)
(* The requests against the store                                          *)
(***************************************************************************)
Absent == [absent |-> TRUE]

\* the request (op, user, id, topic, niche, reqStyle, publishStatus), what it
\* asked of the outside (provider, text and calls: the text provider's
\* answer, the kind of message text in it and how often it was asked; promptStyle: the style handed to the prompt
\* builder; probe: the credential probe; remote, remoteStatus, remoteId,
\* remoteUrl: the blog request; featuredImage and upload: the image asked
\* for and how its upload went; issued and media: whether the create-post
\* request was sent and its featured_media) and the response (code, error,
\* listed)
NoLast ==
  [op |-> "none", user |-> "", id |-> "", code |-> 0, gen |-> "none",
   remote |-> "none", remoteId |-> "", remoteUrl |-> "", publishStatus |-> "",
   listed |-> {}, topic |-> "", niche |-> "", reqStyle |-> Absent,
   promptStyle |-> Absent, provider |-> "none", calls |-> 0, probe |-> "none",
   remoteStatus |-> 0, error |-> "", featuredImage |-> "", upload |-> "none",
   issued |-> FALSE, media |-> "none", text |-> "none"]

\* the message text of a provider answer: null, the empty string or a text
TextKind(call) ==
  IF ~call.ok THEN "none"
  ELSE IF call.isNull THEN "null"
  ELSE IF call.text = <<>> THEN "empty" ELSE "text"

\* every handler runs behind the auth middleware: req.user is a stored user
Served(r) ==
  /\ now <= MaxTime
  /\ now' = now + 1
  /\ last' = r
  /\ UNCHANGED <<env, tresp, iresp, fresp, limiter, inflight>>

\* POST /api/articles/generate: the articles router never requires the User
\* model, so User.findById throws a ReferenceError that the catch turns into 500
\* (call is the answer the text provider would give; it is never asked)
ArticlesGenerate(u, body, call) ==
  /\ Served([NoLast EXCEPT !.op = "generate", !.user = u,
                           !.topic = body.topic, !.niche = body.niche,
                           !.reqStyle = body.writingStyle,
                           !.provider = IF call.ok THEN "ok" ELSE "failed",
                           !.code = IF body.topic = "" \/ body.niche = "" THEN 400 ELSE 500])
  /\ UNCHANGED <<users, articles>>

\* what PUT /api/articles/:id assigns before saving
UpdatedDoc(orig, body, t) ==
  [orig EXCEPT !.title = IF body.title # <<>> THEN trim(body.title) ELSE @,
               !.content = IF body.content # <<>> THEN body.content ELSE @,
               !.status = IF body.status # "" THEN body.status ELSE @,
               !.updatedAt = t]

\* PUT /api/articles/:id
ArticlesUpdate(u, id, body) ==
  IF ~FindOwned(id, u)
  THEN /\ Served([NoLast EXCEPT !.op = "update", !.user = u, !.id = id, !.code = 404])
       /\ UNCHANGED <<users, articles>>
  ELSE LET saved == SaveResult(UpdatedDoc(articles[id], body, now), articles[id], now)
       IN /\ Served([NoLast EXCEPT !.op = "update", !.user = u, !.id = id,
                                   !.code = IF saved.ok THEN 200 ELSE 500])
          /\ articles' = [articles EXCEPT ![id] = saved.doc]
          /\ UNCHANGED users

\* GET /api/articles (page 1 of the default limit of 10 holds every match)
ArticlesList(u, status, niche) ==
  /\ Served([NoLast EXCEPT !.op = "list", !.user = u, !.code = 200,
                           !.listed = {id \in DOMAIN articles :
                                         /\ articles[id].userId = u
                                         /\ (status # "" => articles[id].status = status)
                                         /\ (niche # "" => articles[id].niche = niche)}])
  /\ UNCHANGED <<users, articles>>

\* GET /api/articles/:id
ArticlesGet(u, id) ==
  /\ Served([NoLast EXCEPT !.op = "get", !.user = u, !.id = id,
                           !.code = IF FindOwned(id, u) THEN 200 ELSE 404])
  /\ UNCHANGED <<users, articles>>

\* DELETE /api/articles/:id
ArticlesDelete(u, id) ==
  IF ~FindOwned(id, u)
  THEN /\ Served([NoLast EXCEPT !.op = "delete", !.user = u, !.id = id, !.code = 404])
       /\ UNCHANGED <<users, articles>>
  ELSE /\ Served([NoLast EXCEPT !.op = "delete", !.user = u, !.id = id, !.code = 200])
       /\ articles' = [i \in DOMAIN articles \ {id} |-> articles[i]]
       /\ UNCHANGED users

\* what POST /api/articles/:id/regenerate assigns before saving
RegeneratedDoc_fresh(orig, new, body, t) ==
  [orig EXCEPT !.title = trim(new.title), !.content = new.content,
               !.writingStyle = IF body.writingStyle # Absent THEN body.writingStyle ELSE @,
               !.wordCount = new.wordCount,
               !.tone = IF body.tone # "" THEN body.tone ELSE @,
               !.status = "draft", !.images = <<>>, !.blogPost = EmptyBlogPost,
               !.analytics = [views |-> 0, likes |-> 0, shares |-> 0, comments |-> 0],
               !.createdAt = t, !.generatedAt = t, !.updatedAt = t]

RegeneratedDoc(orig, new, body, t) ==
  [orig EXCEPT !.title = trim(new.title), !.content = new.content,
               !.writingStyle = IF body.writingStyle # Absent THEN body.writingStyle ELSE @,
               !.wordCount = new.wordCount,
               !.tone = IF body.tone # "" THEN body.tone ELSE @,
               !.updatedAt = t, !.regeneratedAt = t]

\* the arguments the regenerate handler hands to generateArticle
RegenerateArgs(orig, body) ==
  [topic |-> orig.topic, niche |-> orig.niche,
   writingStyle |-> IF body.writingStyle # Absent THEN body.writingStyle
                    ELSE orig.writingStyle,
   wordCount |-> IF body.wordCount # 0 THEN body.wordCount ELSE orig.wordCount,
   tone |-> IF body.tone # "" THEN body.tone ELSE orig.tone,
   customPrompt |-> body.customPrompt]

\* POST /api/articles/:id/regenerate
ArticlesRegenerate(u, id, body, call) ==
  IF ~FindOwned(id, u)
  THEN /\ Served([NoLast EXCEPT !.op = "regenerate", !.user = u, !.id = id,
                                !.reqStyle = body.writingStyle,
                                !.provider = IF call.ok THEN "ok" ELSE "failed",
                                !.code = 404])
       /\ UNCHANGED <<users, articles>>
  ELSE LET args == RegenerateArgs(articles[id], body)
           new == generateArticle(call)
           saved == SaveResult(RegeneratedDoc(articles[id], new, body, now), articles[id], now)
           done == ~new.threw /\ saved.ok
       IN /\ Served([NoLast EXCEPT !.op = "regenerate", !.user = u, !.id = id,
                                   !.reqStyle = body.writingStyle,
                                   !.promptStyle = args.writingStyle,
                                   !.provider = IF call.ok THEN "ok" ELSE "failed",
                                   !.text = TextKind(call),
                                   !.calls = 1,
                                   !.gen = IF new.threw THEN "failed" ELSE "ok",
                                   !.code = IF done THEN 200 ELSE 500])
          /\ articles' = IF done THEN [articles EXCEPT ![id] = saved.doc] ELSE articles
          /\ UNCHANGED users

\* what PUT /api/auth/profile does to the Article collection: nothing
ArticlesAfterProfile_restyled(u, body) ==
  [i \in DOMAIN articles |->
     IF articles[i].userId = u /\ body.writingStyle # Absent
     THEN [articles[i] EXCEPT !.writingStyle = body.writingStyle]
     ELSE articles[i]]

ArticlesAfterProfile(u, body) == articles

\* what PUT /api/auth/profile assigns before saving
ProfileDoc(user, body) ==
  [user EXCEPT !.username = IF body.username # "" THEN body.username ELSE @,
               !.email = IF body.email # "" THEN body.email ELSE @,
               !.wordpress = IF body.wordpress # Absent THEN body.wordpress ELSE @,
               !.writingStyle = IF body.writingStyle # Absent THEN body.writingStyle ELSE @]

\* user.save(): the schema validators, then the unique indexes
UserSaveOk(u, doc) ==
  /\ ValidStyle(doc.writingStyle)
  /\ \A v \in DOMAIN users \ {u} :
       users[v].username # doc.username /\ users[v].email # doc.email

\* PUT /api/auth/profile
AuthProfile(u, body) ==
  LET doc == ProfileDoc(users[u], body)
      ok == UserSaveOk(u, doc)
  IN /\ Served([NoLast EXCEPT !.op = "profile", !.user = u,
                              !.code = IF ok THEN 200 ELSE 500])
     /\ users' = IF ok THEN [users EXCEPT ![u] = doc] ELSE users
     /\ articles' = ArticlesAfterProfile(u, body)

InvalidCredentials == "Invalid credentials. Please check your username and password."
RestApiNotFound ==
  "WordPress REST API not found. Please ensure your site has REST API enabled."
ConnectionFailed ==
  "Failed to connect to WordPress site. Please check your site URL and credentials."

\* testWordPressConnection: status is the HTTP status of GET /wp/v2/users/me
\* (0: no response at all)
testWordPressConnection(status) ==
  IF status = 200 THEN [success |-> TRUE, error |-> ""]
  ELSE IF status = 401 THEN [success |-> FALSE, error |-> InvalidCredentials]
  ELSE IF status = 404 THEN [success |-> FALSE, error |-> RestApiNotFound]
  ELSE [success |-> FALSE, error |-> ConnectionFailed]

\* POST /api/blog/connect: the fields, then the probe, then the save
BlogConnect(u, siteUrl, status) ==
  LET r == [NoLast EXCEPT !.op = "connect", !.user = u]
      connectionTest == testWordPressConnection(status)
  IN IF siteUrl = ""
     THEN /\ Served([r EXCEPT !.code = 400,
                              !.error = "Site URL, username, and password/API key are required"])
          /\ UNCHANGED <<users, articles>>
     ELSE IF ~connectionTest.success
     THEN /\ Served([r EXCEPT !.code = 400, !.probe = "failed", !.remoteStatus = status,
                              !.error = connectionTest.error])
          /\ UNCHANGED <<users, articles>>
     ELSE /\ Served([r EXCEPT !.code = 200, !.probe = "ok", !.remoteStatus = status])
          /\ users' = [users EXCEPT ![u].wordpress =
                         [connected |-> TRUE, siteUrl |-> siteUrl, connectedAt |-> now]]
          /\ UNCHANGED articles

\* user.blogSettings?.wordpress?.connected
isConnected_always(user) == TRUE

isConnected(user) == user.wordpress.connected

\* a request to the blog's posts endpoint made with the stored settings: it
\* succeeds when there is a site URL to build the address from and the blog
\* answers 200
RemoteSucceeds(blogSettings, status) == blogSettings.siteUrl # "" /\ status = 200

\* what the blog handlers record of the remote request
RemoteSent(r, blogSettings, status) ==
  [r EXCEPT !.remote = IF RemoteSucceeds(blogSettings, status) THEN "ok" ELSE "failed",
            !.remoteStatus = IF blogSettings.siteUrl # "" THEN status ELSE 0]

\* GET /api/blog/posts: getWordPressPosts rethrows any failure and the
\* handler's catch answers 500
BlogListPosts(u, status) ==
  LET r == [NoLast EXCEPT !.op = "listposts", !.user = u]
      sent == RemoteSent(r, users[u].wordpress, status)
  IN /\ Served(IF ~isConnected(users[u])
               THEN [r EXCEPT !.code = 400, !.error = "Blog not connected"]
               ELSE IF RemoteSucceeds(users[u].wordpress, status)
               THEN [sent EXCEPT !.code = 200]
               ELSE [sent EXCEPT !.code = 500, !.error = "Failed to fetch blog posts"])
     /\ UNCHANGED <<users, articles>>

\* PUT /api/blog/post/:postId: updateWordPressPost returns success: false
\* with its own message on any failure
BlogUpdatePost(u, status) ==
  LET r == [NoLast EXCEPT !.op = "updatepost", !.user = u]
      sent == RemoteSent(r, users[u].wordpress, status)
  IN /\ Served(IF ~isConnected(users[u])
               THEN [r EXCEPT !.code = 400, !.error = "Blog not connected"]
               ELSE IF RemoteSucceeds(users[u].wordpress, status)
               THEN [sent EXCEPT !.code = 200]
               ELSE [sent EXCEPT !.code = 400, !.error = "Failed to update WordPress post"])
     /\ UNCHANGED <<users, articles>>

\* DELETE /api/blog/post/:postId: deleteWordPressPost, likewise
BlogDeletePost(u, status) ==
  LET r == [NoLast EXCEPT !.op = "deletepost", !.user = u]
      sent == RemoteSent(r, users[u].wordpress, status)
  IN /\ Served(IF ~isConnected(users[u])
               THEN [r EXCEPT !.code = 400, !.error = "Blog not connected"]
               ELSE IF RemoteSucceeds(users[u].wordpress, status)
               THEN [sent EXCEPT !.code = 200]
               ELSE [sent EXCEPT !.code = 400, !.error = "Failed to delete WordPress post"])
     /\ UNCHANGED <<users, articles>>

\* the outcome of axios.post(.../wp/v2/posts)
RemoteOk(id, link) == [ok |-> TRUE, id |-> id, link |-> link]
RemoteFailed == [ok |-> FALSE, id |-> "", link |-> ""]

\* uploadFeaturedImage: download the image and upload it to the media
\* endpoint, both in a try; the catch returns null
uploadFeaturedImage_throws(imageUrl, upload) == IF upload = "ok" THEN "m1" ELSE "threw"

uploadFeaturedImage(imageUrl, upload) == IF upload = "ok" THEN "m1" ELSE "null"

\* postToWordPress: the upload of the featured image, if one was asked for,
\* and the remote call in a try; the catch returns success: false (a missing
\* siteUrl throws inside the same try, before anything is sent)
postToWordPress_alwaysSucceeds(blogSettings, remote, featuredImage, upload) ==
  [success |-> TRUE, postId |-> remote.id, postUrl |-> remote.link,
   issued |-> TRUE, media |-> "none"]

postToWordPress(blogSettings, remote, featuredImage, upload) ==
  LET media == IF featuredImage # "" THEN uploadFeaturedImage(featuredImage, upload)
               ELSE "none"
      failed == [success |-> FALSE, postId |-> "", postUrl |-> ""]
  IN IF blogSettings.siteUrl = ""
     THEN failed @@ [issued |-> FALSE, media |-> "none"]
     ELSE IF media = "threw"
     THEN failed @@ [issued |-> FALSE, media |-> "none"]
     ELSE IF remote.ok
     THEN [success |-> TRUE, postId |-> remote.id, postUrl |-> remote.link,
           issued |-> TRUE, media |-> media]
     ELSE failed @@ [issued |-> TRUE, media |-> media]

\* POST /api/blog/post
BlogPost(u, articleId, publishStatus, remote, featuredImage, upload) ==
  LET r == [NoLast EXCEPT !.op = "blogpost", !.user = u, !.id = articleId,
                          !.publishStatus = publishStatus,
                          !.featuredImage = featuredImage]
  IN IF articleId = ""
     THEN Served([r EXCEPT !.code = 400]) /\ UNCHANGED <<users, articles>>
     ELSE IF ~FindOwned(articleId, u)
     THEN Served([r EXCEPT !.code = 404]) /\ UNCHANGED <<users, articles>>
     ELSE IF ~isConnected(users[u])
     THEN Served([r EXCEPT !.code = 400]) /\ UNCHANGED <<users, articles>>
     ELSE LET postResult == postToWordPress(users[u].wordpress, remote, featuredImage, upload)
              sent == [r EXCEPT !.remote = IF users[u].wordpress.siteUrl # "" /\ remote.ok
                                           THEN "ok" ELSE "failed",
                                !.remoteId = remote.id, !.remoteUrl = remote.link,
                                !.upload = IF featuredImage # "" THEN upload ELSE "none",
                                !.issued = postResult.issued, !.media = postResult.media]
              doc == [articles[articleId] EXCEPT !.blogPost =
                        [postId |-> postResult.postId, postUrl |-> postResult.postUrl,
                         publishedAt |-> now, status |-> publishStatus,
                         featuredImage |-> ""]]
              saved == SaveResult(doc, articles[articleId], now)
          IN IF ~postResult.success
             THEN Served([sent EXCEPT !.code = 400]) /\ UNCHANGED <<users, articles>>
             ELSE /\ Served([sent EXCEPT !.code = IF saved.ok THEN 200 ELSE 500])
                  /\ articles' = [articles EXCEPT ![articleId] = saved.doc]
                  /\ UNCHANGED users

(***************************************************************************)
(* buildArticlePrompt: the prompt as the sequence of the pieces appended   *)
(***************************************************************************)
Piece(label, args) == [label |-> label, args |-> args]

\* `${value}` of a boolean
BoolText(b) == IF b THEN "true" ELSE "false"

\* if (writingStyle.voice) ...: the field is set and not the empty string
TruthyText(ws, f) == f \in DOMAIN ws /\ ws[f] # ""

\* if (writingStyle.examples) ...: the field is set and true
TruthyFlag(ws, f) == f \in DOMAIN ws /\ ws[f] = TRUE

TextLine(ws, f, label) == IF TruthyText(ws, f) THEN <<Piece(label, <<ws[f]>>)>> ELSE <<>>
FlagLine(ws, f, label) == IF TruthyFlag(ws, f) THEN <<Piece(label, <<BoolText(ws[f])>>)>> ELSE <<>>

\* the block under if (writingStyle)
StyleBlock(ws) ==
  <<Piece("\n\nWriting Style:", <<>>)>>
  \o TextLine(ws, "voice", "\n- Voice: ")
  \o TextLine(ws, "complexity", "\n- Complexity: ")
  \o TextLine(ws, "structure", "\n- Structure: ")
  \o FlagLine(ws, "examples", "\n- Include examples: ")
  \o FlagLine(ws, "quotes", "\n- Include quotes: ")
  \o FlagLine(ws, "callToAction", "\n- Call to action: ")

buildArticlePrompt(a) ==
  <<Piece("Write a -word article about in the niche.",
          <<ToString(a.wordCount), a.topic, a.niche>>)>>
  \o (IF a.tone # "" THEN <<Piece("\n\nTone: Write in a tone.", <<a.tone>>)>> ELSE <<>>)
  \o (IF a.writingStyle # Absent THEN StyleBlock(a.writingStyle) ELSE <<>>)
  \o (IF a.customPrompt # ""
      THEN <<Piece("\n\nAdditional Instructions: ", <<a.customPrompt>>)>> ELSE <<>>)
  \o <<Piece("\n\nFormat the response as follows:\nTITLE: \n\nCONTENT:\n", <<>>)>>

(***************************************************************************)
(* Credentials and tokens                                                  *)
(***************************************************************************)
\* bcrypt.genSalt(10): a random salt
Salts == {"s1", "s2"}

\* bcrypt.hash(data, salt): a string that carries the salt and depends on
\* the data; a text is a sequence, the hash is its marker, its salt, the data
hash(data, salt) == <<"$2a$", salt>> \o data

\* bcrypt.compare(data, encrypted): hash the data with the salt read from
\* the encrypted string and compare
compare(data, encrypted) ==
  /\ Len(encrypted) >= 2
  /\ encrypted[1] = "$2a$"
  /\ hash(data, encrypted[2]) = encrypted

\* a request's Authorization header after replace('Bearer ', ''): absent,
\* not a token of this server, an expired token or a token for decoded.user.id
NoToken == [kind |-> "none", id |-> ""]
SignedToken(id) == [kind |-> "valid", id |-> id]
Tokens ==
  {NoToken, [kind |-> "garbage", id |-> ""], [kind |-> "expired", id |-> "u1"]}
    \cup {SignedToken(i) : i \in {"u1", "u2", "u9"}}

(***************************************************************************)
(* The stored documents and the requests of the store specification        *)
(***************************************************************************)
\* n words of the letter c, one space apart
Words(n, c) == [i \in 1..(2 * n - 1) |-> IF i % 2 = 1 THEN c ELSE " "]

\* a completion in the format the prompt asks for
Marked(title, body) ==
  TITLE \o <<" ">> \o title \o <<"\n", "\n">> \o CONTENT \o <<"\n">> \o body

NotConnected == [connected |-> FALSE, siteUrl |-> "", connectedAt |-> 0]

SeedUsers ==
  [u \in UserIds |->
     IF u = "u1"
     THEN [username |-> "alice", email |-> "alice@x", writingStyle |-> DefaultStyle,
           wordpress |-> NotConnected, isActive |-> TRUE,
           password |-> hash(hash(<<"secret1">>, "s1"), "s2")]
     ELSE [username |-> "bob", email |-> "bob@x", isActive |-> TRUE,
           password |-> hash(hash(<<"secret2">>, "s2"), "s1"),
           writingStyle |-> [DefaultStyle EXCEPT !.voice = "friendly"],
           wordpress |-> [connected |-> TRUE, siteUrl |-> "site", connectedAt |-> 0]]]

SeedArticle(u, style, blogPost) ==
  [userId |-> u, title |-> <<"O", "l", "d">>, content |-> Words(MinWordCount, "w"),
   topic |-> "ai", niche |-> "technology", writingStyle |-> style,
   wordCount |-> MinWordCount, tone |-> "professional", status |-> "draft",
   images |-> <<"img1">>, blogPost |-> blogPost,
   analytics |-> [views |-> 3, likes |-> 1, shares |-> 0, comments |-> 0],
   createdAt |-> 0, updatedAt |-> 0, generatedAt |-> 0, regeneratedAt |-> 0]

SeedArticles ==
  [i \in ArticleIds |->
     IF i = "a1" THEN SeedArticle("u1", DefaultStyle, EmptyBlogPost)
     ELSE SeedArticle("u2", [DefaultStyle EXCEPT !.voice = "friendly"],
                      [postId |-> "p0", postUrl |-> "site/p0", publishedAt |-> 0,
                       status |-> "publish", featuredImage |-> ""])]

UpdateBodies ==
  {[title |-> <<>>, content |-> <<>>, status |-> ""],
   [title |-> <<" ", "N", "e", "w", " ">>, content |-> <<>>, status |-> ""],
   [title |-> <<>>, content |-> Words(3, "e"), status |-> ""],
   [title |-> <<>>, content |-> <<" ">> \o Words(MinWordCount + 1, "e"), status |-> "review"],
   [title |-> <<>>, content |-> <<>>, status |-> "bogus"]}

RegenerateBodies ==
  {[writingStyle |-> Absent, tone |-> "", wordCount |-> 0, customPrompt |-> ""],
   [writingStyle |-> [voice |-> "casual"], tone |-> "friendly", wordCount |-> 500,
    customPrompt |-> "be brief"],
   [writingStyle |-> Absent, tone |-> "bogus", wordCount |-> 0, customPrompt |-> ""]}

GenerateBodies ==
  [topic : {"", "ai"}, niche : {"", "technology"},
   writingStyle : {Absent, [voice |-> "casual"]}]

GenCalls ==
  {GenFailed, GenNull, GenText(<<>>),
   GenText(Marked(<<"N", "e", "w">>, Words(MinWordCount, "x"))),
   GenText(Marked(<<"N", "e", "w">>, Words(3, "x"))),
   GenText(Words(MinWordCount, "y")),
   GenText(<<"H", "i", "\n", "\n">> \o Words(MinWordCount, "z"))}

ProfileBodies ==
  {[username |-> "", email |-> "", wordpress |-> Absent, writingStyle |-> Absent],
   [username |-> "", email |-> "", wordpress |-> Absent,
    writingStyle |-> [DefaultStyle EXCEPT !.voice = "conversational"]],
   [username |-> "", email |-> "", wordpress |-> Absent,
    writingStyle |-> [voice |-> "bogus"]],
   [username |-> "bob", email |-> "", wordpress |-> Absent, writingStyle |-> Absent],
   [username |-> "", email |-> "",
    wordpress |-> [connected |-> TRUE, siteUrl |-> "", connectedAt |-> 0],
    writingStyle |-> Absent]}

Remotes == {RemoteOk("p1", "site/p1"), RemoteFailed}

HttpStatuses == {200, 401, 404, 500}

\* the featuredImage of a post request and the outcome of its upload
FeaturedImages ==
  {[image |-> "", upload |-> "none"], [image |-> "img", upload |-> "ok"],
   [image |-> "img", upload |-> "downloadFailed"],
   [image |-> "img", upload |-> "uploadFailed"]}

(***************************************************************************)
(* The aggregator specifications                                           *)
(***************************************************************************)
NoKeys ==
  [GOOGLE_TRENDS_API_KEY |-> FALSE, NEWS_API_KEY |-> FALSE,
   UNSPLASH_ACCESS_KEY |-> FALSE, PEXELS_API_KEY |-> FALSE]

StoreIdle ==
  /\ users = <<>>
  /\ articles = <<>>
  /\ now = 0
  /\ last = <<>>
  /\ fresp = <<>>
  /\ limiter = <<>>
  /\ inflight = <<>>

InitTopics ==
  /\ env \in {[NoKeys EXCEPT !.GOOGLE_TRENDS_API_KEY = g, !.NEWS_API_KEY = n] :
                g \in BOOLEAN, n \in BOOLEAN}
  /\ tresp = NoTResp
  /\ iresp = NoIResp
  /\ StoreIdle

NextTopics == TopicsTrending \/ TopicsSearch \/ TopicsReply

SpecTopics == InitTopics /\ [][NextTopics]_vars

InitImages ==
  /\ env \in {[NoKeys EXCEPT !.UNSPLASH_ACCESS_KEY = u, !.PEXELS_API_KEY = p] :
                u \in BOOLEAN, p \in BOOLEAN}
  /\ tresp = NoTResp
  /\ iresp = NoIResp
  /\ StoreIdle

NextImages == ImagesSearch \/ ImagesTrending \/ ImagesRandom \/ ImagesReply

SpecImages == InitImages /\ [][NextImages]_vars

(***************************************************************************)
(* Both aggregators, one request at a time                                 *)
(***************************************************************************)
InitAggregators ==
  /\ env \in [{"GOOGLE_TRENDS_API_KEY", "NEWS_API_KEY", "UNSPLASH_ACCESS_KEY",
               "PEXELS_API_KEY"} -> BOOLEAN]
  /\ tresp = NoTResp
  /\ iresp = NoIResp
  /\ StoreIdle

NextAggregators ==
  \/ iresp.op = "none" /\ NextTopics
  \/ tresp.op = "none" /\ NextImages

SpecAggregators == InitAggregators /\ [][NextAggregators]_vars

Init ==
  /\ env = NoKeys
  /\ tresp = NoTResp
  /\ iresp = NoIResp
  /\ users = SeedUsers
  /\ articles = SeedArticles
  /\ now = 1
  /\ last = NoLast
  /\ fresp = <<>>
  /\ limiter = <<>>
  /\ inflight = <<>>

Next ==
  \/ \E u \in UserIds, body \in GenerateBodies,
        call \in {GenFailed, GenText(Marked(<<"N", "e", "w">>, Words(MinWordCount, "x")))} :
       ArticlesGenerate(u, body, call)
  \/ \E u \in UserIds, id \in ArticleIds, body \in UpdateBodies : ArticlesUpdate(u, id, body)
  \/ \E u \in UserIds, status \in {"", "review"}, niche \in {"", "travel"} :
       ArticlesList(u, status, niche)
  \/ \E u \in UserIds, id \in ArticleIds : ArticlesGet(u, id)
  \/ \E u \in UserIds, id \in ArticleIds : ArticlesDelete(u, id)
  \/ \E u \in UserIds, id \in ArticleIds, body \in RegenerateBodies, call \in GenCalls :
       ArticlesRegenerate(u, id, body, call)
  \/ \E u \in UserIds, body \in ProfileBodies : AuthProfile(u, body)
  \/ \E u \in UserIds, siteUrl \in {"", "site"}, status \in HttpStatuses \cup {0} :
       BlogConnect(u, siteUrl, status)
  \/ \E u \in UserIds, status \in HttpStatuses : BlogListPosts(u, status)
  \/ \E u \in UserIds, status \in HttpStatuses : BlogUpdatePost(u, status)
  \/ \E u \in UserIds, status \in HttpStatuses : BlogDeletePost(u, status)
  \/ \E u \in UserIds, articleId \in ArticleIds \cup {""},
        publishStatus \in {"draft", "publish", "bogus"}, remote \in Remotes,
        featured \in FeaturedImages :
       BlogPost(u, articleId, publishStatus, remote, featured.image, featured.upload)

Spec == Init /\ [][Next]_vars

(***************************************************************************)
(* The output parser on its own                                            *)
(***************************************************************************)
\* lines.join('\n')
RECURSIVE JoinLines(_)
JoinLines(ls) ==
  IF Len(ls) = 0 THEN <<>>
  ELSE IF Len(ls) = 1 THEN ls[1]
  ELSE ls[1] \o <<"\n">> \o JoinLines(Tail(ls))

LineKinds ==
  {TITLE \o <<" ", "A", " ">>, TITLE, CONTENT, <<"x">>, <<>>}

RawTexts == {JoinLines(ls) : ls \in SeqUpTo(LineKinds, MaxLines)}

InitParser ==
  /\ env = NoKeys
  /\ tresp = NoTResp
  /\ iresp = NoIResp
  /\ users = <<>>
  /\ articles = <<>>
  /\ now = 0
  /\ last = <<>>
  /\ fresp \in {[op |-> "none", raw |-> raw, fallback |-> FALSE,
                 out |-> [title |-> <<>>, content |-> <<>>]] : raw \in RawTexts}
  /\ limiter = <<>>
  /\ inflight = <<>>

\* parseGeneratedContent(generatedContent)
Parse ==
  /\ fresp.op = "none"
  /\ fresp' = [fresp EXCEPT !.op = "parse", !.fallback = usesFallback(fresp.raw),
                            !.out = parseGeneratedContent(fresp.raw)]
  /\ UNCHANGED <<env, tresp, iresp, users, articles, now, last, limiter, inflight>>

NextParser == Parse

SpecParser == InitParser /\ [][NextParser]_vars

(***************************************************************************)
(* The prompt builder on its own                                           *)
(***************************************************************************)
TextFields == {"voice", "complexity", "structure"}
FlagFields == {"examples", "quotes", "callToAction"}
SampleText == [voice |-> "casual", complexity |-> "simple", structure |-> "list-based"]

\* the partial styles: any text fields set, any flags set to true or false
StyleInputs ==
  {[f \in T |-> SampleText[f]] @@ flags :
     T \in SUBSET TextFields, flags \in UNION {[F -> BOOLEAN] : F \in SUBSET FlagFields}}

PromptArgs ==
  [topic : {"ai"}, niche : {"technology"}, writingStyle : StyleInputs \cup {Absent},
   wordCount : {1000}, tone : {"", "casual"}, customPrompt : {"", "be brief"}]

InitPrompt ==
  /\ env = NoKeys
  /\ tresp = NoTResp
  /\ iresp = NoIResp
  /\ users = <<>>
  /\ articles = <<>>
  /\ now = 0
  /\ last = <<>>
  /\ fresp \in {[op |-> "none", args |-> a, out |-> <<>>] : a \in PromptArgs}
  /\ limiter = <<>>
  /\ inflight = <<>>

\* buildArticlePrompt({ topic, niche, writingStyle, wordCount, tone, customPrompt })
BuildPrompt ==
  /\ fresp.op = "none"
  /\ fresp' = [fresp EXCEPT !.op = "prompt", !.out = buildArticlePrompt(fresp.args)]
  /\ UNCHANGED <<env, tresp, iresp, users, articles, now, last, limiter, inflight>>

NextPrompt == BuildPrompt

SpecPrompt == InitPrompt /\ [][NextPrompt]_vars

(***************************************************************************)
(* middleware/auth.js: rateLimit(windowMs, max)                            *)
(***************************************************************************)
WindowMs == 3       \* the windowMs the limiter is built with
MaxPerWindow == 2   \* the max the limiter is built with

Ips == {"a", "b"}

\* now - timestamp > windowMs in the cleanup loop, where timestamp is the
\* array stored for a key: an array of one number converts to that number,
\* an empty array to 0, a longer array to NaN (and NaN > windowMs is false)
StaleEntry_firstStamp(stamps, t) == Len(stamps) > 0 /\ t - stamps[1] > WindowMs

StaleEntry(stamps, t) ==
  IF Len(stamps) = 1 THEN t - stamps[1] > WindowMs
  ELSE IF Len(stamps) = 0 THEN t > WindowMs
  ELSE FALSE

\* the Map after the cleanup loop
CleanOldEntries(requests, t) ==
  [k \in {k \in DOMAIN requests : ~StaleEntry(requests[k], t)} |-> requests[k]]

\* userRequests.filter(timestamp => now - timestamp < windowMs)
RECURSIVE recentOf(_, _)
recentOf(stamps, t) ==
  IF Len(stamps) = 0 THEN <<>>
  ELSE (IF t - stamps[1] < WindowMs THEN <<stamps[1]>> ELSE <<>>) \o recentOf(Tail(stamps), t)

\* recentRequests.length >= max
overLimit_offByOne(recentRequests) == Len(recentRequests) > MaxPerWindow

overLimit(recentRequests) == Len(recentRequests) >= MaxPerWindow

\* one request through the middleware at time t (Date.now never runs
\* backwards); admitted is the log of the requests passed on to the handler
RateLimited(ip, t) ==
  /\ limiter.served < MaxServed
  /\ t >= limiter.clock
  /\ LET cleaned == CleanOldEntries(limiter.requests, t)
         userRequests == IF ip \in DOMAIN cleaned THEN cleaned[ip] ELSE <<>>
         recentRequests == recentOf(userRequests, t)
     IN IF overLimit(recentRequests)
        THEN limiter' = [limiter EXCEPT
               !.requests = cleaned, !.clock = t, !.served = @ + 1,
               !.resp = [ip |-> ip, t |-> t, code |-> 429,
                         retryAfter |-> CeilDiv(WindowMs, 1000), next |-> FALSE]]
        ELSE limiter' = [limiter EXCEPT
               !.requests = [k \in DOMAIN cleaned \cup {ip} |->
                               IF k = ip THEN Append(recentRequests, t) ELSE cleaned[k]],
               !.clock = t, !.served = @ + 1,
               !.admitted = Append(@, [ip |-> ip, t |-> t]),
               !.resp = [ip |-> ip, t |-> t, code |-> 200, retryAfter |-> 0,
                         next |-> TRUE]]
  /\ UNCHANGED <<env, tresp, iresp, users, articles, now, last, fresp, inflight>>

InitRate ==
  /\ env = NoKeys
  /\ tresp = NoTResp
  /\ iresp = NoIResp
  /\ users = <<>>
  /\ articles = <<>>
  /\ now = 0
  /\ last = <<>>
  /\ fresp = <<>>
  /\ inflight = <<>>
  /\ limiter = [requests |-> <<>>, clock |-> 0, served |-> 0, admitted |-> <<>>,
                resp |-> [ip |-> "", t |-> 0, code |-> 0, retryAfter |-> 0, next |-> FALSE]]

NextRate == \E ip \in Ips, t \in 0..MaxClock : RateLimited(ip, t)

SpecRate == InitRate /\ [][NextRate]_vars

(***************************************************************************)
(* Registration, login and the authentication middlewares                  *)
(***************************************************************************)
\* the request (op, username, email, password, token) and the answer (code,
\* error, issued: the token in the response, next: the protected handler was
\* invoked, reqUser: req.user)
NoAuthLast ==
  [op |-> "none", username |-> "", email |-> "", password |-> <<>>, token |-> NoToken,
   code |-> 0, error |-> "", issued |-> NoToken, next |-> FALSE, reqUser |-> ""]

AuthServed(r) ==
  /\ last' = r
  /\ UNCHANGED <<env, tresp, iresp, articles, now, fresp, limiter, inflight>>

\* User.findOne({ email })
FindByEmail(email) == {u \in DOMAIN users : users[u].email = email}

\* the _id of a new document
NewUserId == CHOOSE i \in {"u3", "u4", "u5"} : i \notin DOMAIN users

\* new User({ username, email, password, blogSettings: {} })
NewUser(body) ==
  [username |-> body.username, email |-> body.email, password |-> body.password,
   writingStyle |-> DefaultStyle, wordpress |-> NotConnected, isActive |-> TRUE]

\* UserSchema.pre('save'): hash the password when it was modified
preSaveUser(doc, modified, salt) ==
  IF modified THEN [doc EXCEPT !.password = hash(@, salt)] ELSE doc

\* POST /api/auth/register (salt1: the route's salt, salt2: the hook's)
AuthRegister(body, salt1, salt2) ==
  LET req == [NoAuthLast EXCEPT !.op = "register", !.username = body.username,
                                !.email = body.email, !.password = body.password]
  IN IF FindByEmail(body.email) # {}
     THEN /\ AuthServed([req EXCEPT !.code = 400, !.error = "User already exists"])
          /\ UNCHANGED users
     ELSE IF body.password = <<>>
     THEN \* bcrypt.hash(undefined, salt) throws
          /\ AuthServed([req EXCEPT !.code = 500, !.error = "Server error"])
          /\ UNCHANGED users
     ELSE LET user == [NewUser(body) EXCEPT !.password = hash(body.password, salt1)]
              valid == user.username # "" /\ user.email # ""
              doc == preSaveUser(user, TRUE, salt2)
              id == NewUserId
          IN IF valid /\ UserSaveOk(id, doc)
             THEN /\ users' = [u \in DOMAIN users \cup {id} |->
                                 IF u = id THEN doc ELSE users[u]]
                  /\ AuthServed([req EXCEPT !.code = 200, !.issued = SignedToken(id)])
             ELSE /\ AuthServed([req EXCEPT !.code = 500, !.error = "Server error"])
                  /\ UNCHANGED users

\* POST /api/auth/login
AuthLogin(body) ==
  LET req == [NoAuthLast EXCEPT !.op = "login", !.email = body.email,
                                !.password = body.password]
      found == FindByEmail(body.email)
  IN /\ UNCHANGED users
     /\ IF found = {}
        THEN AuthServed([req EXCEPT !.code = 400, !.error = "Invalid credentials"])
        ELSE LET id == CHOOSE u \in found : TRUE
             IN IF body.password = <<>>
                THEN \* bcrypt.compare(undefined, hash) throws
                     AuthServed([req EXCEPT !.code = 500, !.error = "Server error"])
                ELSE IF ~compare(body.password, users[id].password)
                THEN AuthServed([req EXCEPT !.code = 400, !.error = "Invalid credentials"])
                ELSE AuthServed([req EXCEPT !.code = 200, !.issued = SignedToken(id)])

\* user.isAdmin: the schema has no such path
isAdmin(user) == IF "isAdmin" \in DOMAIN user THEN user.isAdmin ELSE FALSE

\* the auth middleware
auth(token) ==
  LET req == [NoAuthLast EXCEPT !.op = "auth", !.token = token]
  IN /\ UNCHANGED users
     /\ IF token.kind = "none"
        THEN AuthServed([req EXCEPT !.code = 401, !.error = "No token, authorization denied"])
        ELSE IF token.kind = "garbage"
        THEN \* jwt.verify throws JsonWebTokenError
             AuthServed([req EXCEPT !.code = 401, !.error = "Token is not valid"])
        ELSE IF token.kind = "expired"
        THEN \* jwt.verify throws TokenExpiredError
             AuthServed([req EXCEPT !.code = 401, !.error = "Token has expired"])
        ELSE IF token.id \notin DOMAIN users
        THEN AuthServed([req EXCEPT !.code = 401, !.error = "Token is not valid"])
        ELSE IF ~users[token.id].isActive
        THEN AuthServed([req EXCEPT !.code = 401, !.error = "Account is deactivated"])
        ELSE AuthServed([req EXCEPT !.next = TRUE, !.reqUser = token.id])

\* the adminAuth middleware
adminAuth(token) ==
  LET req == [NoAuthLast EXCEPT !.op = "adminAuth", !.token = token]
  IN /\ UNCHANGED users
     /\ IF token.kind = "none"
        THEN AuthServed([req EXCEPT !.code = 401, !.error = "No token, authorization denied"])
        ELSE IF token.kind \in {"garbage", "expired"}
        THEN \* jwt.verify throws; the catch answers every error alike
             AuthServed([req EXCEPT !.code = 500, !.error = "Server error"])
        ELSE IF token.id \notin DOMAIN users
        THEN AuthServed([req EXCEPT !.code = 401, !.error = "Token is not valid"])
        ELSE IF ~users[token.id].isActive
        THEN AuthServed([req EXCEPT !.code = 401, !.error = "Account is deactivated"])
        ELSE IF ~isAdmin(users[token.id])
        THEN AuthServed([req EXCEPT !.code = 403,
                                    !.error = "Access denied. Admin privileges required."])
        ELSE AuthServed([req EXCEPT !.next = TRUE, !.reqUser = token.id])

RegisterBodies ==
  [username : {"", "alice", "carol"}, email : {"alice@x", "carol@x", "dave@x"},
   password : {<<>>, <<"secret1">>}]

LoginBodies ==
  [email : {"alice@x", "carol@x", "erin@x"},
   password : {<<>>, <<"secret1">>, <<"secret2">>}]

InitAuth ==
  /\ env = NoKeys
  /\ tresp = NoTResp
  /\ iresp = NoIResp
  /\ users \in {SeedUsers, [SeedUsers EXCEPT !["u2"].isActive = FALSE]}
  /\ articles = SeedArticles
  /\ now = 1
  /\ last = NoAuthLast
  /\ fresp = <<>>
  /\ limiter = <<>>
  /\ inflight = <<>>

NextAuth ==
  \/ \E body \in RegisterBodies, salt1 \in Salts, salt2 \in Salts :
       AuthRegister(body, salt1, salt2)
  \/ \E body \in LoginBodies : AuthLogin(body)
  \/ \E token \in Tokens : auth(token)
  \/ \E token \in Tokens : adminAuth(token)

SpecAuth == InitAuth /\ [][NextAuth]_vars

(***************************************************************************)
(* Concurrent update and regenerate requests on one article                *)
(***************************************************************************)
\* the requests in flight, the article they address and its owner
RaceCalls == {"c1", "c2"}
RaceArticle == "a1"
RaceUser == "u1"

\* a request before its findOne: stage, kind, the document as loaded, the
\* document in memory when save() is called, and whether save() resolved
IdleCall ==
  [stage |-> "idle", kind |-> "none", loaded |-> SeedArticles[RaceArticle],
   doc |-> SeedArticles[RaceArticle], ok |-> FALSE]

RaceIdle(c) ==
  /\ inflight[c].stage = "idle"
  /\ FindOwned(RaceArticle, RaceUser)
  /\ UNCHANGED <<env, tresp, iresp, users, articles, now, last, fresp, limiter>>

\* PUT /api/articles/:id up to its save(): findOne and the assignments
RaceUpdateRead(c, body) ==
  /\ RaceIdle(c)
  /\ inflight' = [inflight EXCEPT ![c] =
       [stage |-> "read", kind |-> "update", loaded |-> articles[RaceArticle],
        doc |-> UpdatedDoc(articles[RaceArticle], body, now), ok |-> FALSE]]

\* POST /api/articles/:id/regenerate up to its save(): findOne, the provider
\* call and the assignments; a failed generation ends the request
RaceRegenerateRead(c, body, call) ==
  /\ RaceIdle(c)
  /\ LET new == generateArticle(call)
     IN inflight' = [inflight EXCEPT ![c] =
          IF new.threw
          THEN [IdleCall EXCEPT !.stage = "done", !.kind = "regenerate",
                                !.loaded = articles[RaceArticle],
                                !.doc = articles[RaceArticle]]
          ELSE [stage |-> "read", kind |-> "regenerate",
                loaded |-> articles[RaceArticle],
                doc |-> RegeneratedDoc(articles[RaceArticle], new, body, now),
                ok |-> FALSE]]

\* save() of a loaded document while others save too: validation and the
\* hook on the document in memory, then an update that sets the paths whose
\* value differs from the loaded one
WriteModified(stored, loaded, doc) ==
  [f \in DOMAIN stored |-> IF doc[f] # loaded[f] THEN doc[f] ELSE stored[f]]

RaceSave(c) ==
  /\ inflight[c].stage = "read"
  /\ RaceArticle \in DOMAIN articles
  /\ LET call == inflight[c]
         saved == SaveResult(call.doc, call.loaded, now)
     IN /\ articles' = IF saved.ok
                       THEN [articles EXCEPT ![RaceArticle] =
                               WriteModified(@, call.loaded, saved.doc)]
                       ELSE articles
        /\ inflight' = [inflight EXCEPT ![c].stage = "done", ![c].ok = saved.ok,
                                        ![c].doc = saved.doc]
  /\ UNCHANGED <<env, tresp, iresp, users, now, last, fresp, limiter>>

RaceUpdates ==
  {[title |-> <<"M", "i", "n", "e">>, content |-> <<>>, status |-> ""],
   [title |-> <<>>, content |-> Words(MinWordCount, "e"), status |-> ""],
   [title |-> <<"B", "o", "t", "h">>, content |-> Words(MinWordCount + 2, "b"),
    status |-> "review"]}

RaceGenerations ==
  {GenFailed,
   GenText(Marked(<<"N", "e", "w">>, Words(MinWordCount + 1, "x"))),
   GenText(Marked(<<"G", "e", "n">>, Words(MinWordCount, "y")))}

InitRace ==
  /\ env = NoKeys
  /\ tresp = NoTResp
  /\ iresp = NoIResp
  /\ users = SeedUsers
  /\ articles = SeedArticles
  /\ now = 1
  /\ last = NoLast
  /\ fresp = <<>>
  /\ limiter = <<>>
  /\ inflight = [c \in RaceCalls |-> IdleCall]

NextRace ==
  \/ \E c \in RaceCalls, body \in RaceUpdates : RaceUpdateRead(c, body)
  \/ \E c \in RaceCalls, call \in RaceGenerations :
       RaceRegenerateRead(c, [writingStyle |-> Absent, tone |-> "", wordCount |-> 0,
                              customPrompt |-> ""], call)
  \/ \E c \in RaceCalls : RaceSave(c)

SpecRace == InitRace /\ [][NextRace]_vars

(***************************************************************************)
(* The analytics counters of an article                                    *)
(***************************************************************************)
\* ArticleSchema.methods.incrementAnalytics(type, amount = 1), up to the save
incrementAnalytics(doc, type, amount) ==
  IF type \in DOMAIN doc.analytics
  THEN [threw |-> FALSE, doc |-> [doc EXCEPT !.analytics[type] = @ + amount]]
  ELSE [threw |-> TRUE, doc |-> doc]

\* article.incrementAnalytics(type, amount) on a loaded article
ArticleIncrementAnalytics(id, type, amount) ==
  /\ id \in DOMAIN articles
  /\ now <= MaxTime
  /\ now' = now + 1
  /\ LET r == incrementAnalytics(articles[id], type, amount)
     IN /\ articles' = IF r.threw THEN articles
                       ELSE [articles EXCEPT ![id] = SaveResult(r.doc, @, now).doc]
        /\ last' = [op |-> "incrementAnalytics", id |-> id, type |-> type,
                    amount |-> amount,
                    error |-> IF r.threw THEN "Invalid analytics type" ELSE ""]
  /\ UNCHANGED <<env, tresp, iresp, users, fresp, limiter, inflight>>

AnalyticsTypes == {"views", "likes", "shares", "comments"}
AmountInputs == {-1, 1, 2}

InitAnalytics == Init

NextAnalytics ==
  \E id \in ArticleIds, type \in AnalyticsTypes \cup {"clicks"}, amount \in AmountInputs :
    ArticleIncrementAnalytics(id, type, amount)

SpecAnalytics == InitAnalytics /\ [][NextAnalytics]_vars

(***************************************************************************)
(* Claims about the topic aggregator (SpecTopics)                          *)
(***************************************************************************)
Range(s) == {s[i] : i \in 1..Len(s)}

\* what the providers of the answered request returned, in provider order,
\* read from the request and the news call's outcome
ProvidedTopics ==
  LET news == IF tresp.newsCall.called /\ tresp.newsCall.ok
              THEN tresp.newsCall.items ELSE <<>>
  IN IF tresp.op = "trending"
     THEN (IF env.GOOGLE_TRENDS_API_KEY
           THEN <<Topic(Title("trends2024", tresp.niche, "", 0), "Google Trends", "")>>
           ELSE <<>>)
          \o news
          \o <<Topic(Title("reddit", tresp.niche, "", 0), "Reddit", "")>>
          \o <<Topic(Title("twitter", tresp.niche, "", 0), "Twitter", "")>>
     ELSE news
          \o <<Topic(Title("redditsearch", tresp.niche, tresp.keyword, 0), "Reddit", "")>>

\* the positions of L that hold the first occurrence of their title
FirstOccurrences(L) ==
  {i \in 1..Len(L) : \A j \in 1..(i - 1) : L[j].title # L[i].title}

\* C4: the topics a trending or search request returns hold no title twice, and
\* the k-th returned topic is the k-th first occurrence of a title in the
\* concatenation of the providers' results in provider order.
C4_TopicsDedupedFirstWins ==
  tresp.code = 200 =>
    LET T == tresp.topics
        L == ProvidedTopics
        F == FirstOccurrences(L)
    IN /\ \A i, j \in 1..Len(T) : i # j => T[i].title # T[j].title
       /\ Len(T) <= Cardinality(F)
       /\ \A k \in 1..Len(T) : T[k] = L[KthOf(F, k)]

\* a news headline carries the title of the community item that follows it,
\* and the headline (first seen) is the one returned
C4_Witness ==
  /\ tresp.op = "trending"
  /\ tresp.code = 200
  /\ \E i, j \in 1..Len(ProvidedTopics) :
       /\ i < j
       /\ ProvidedTopics[i].title = ProvidedTopics[j].title
       /\ ProvidedTopics[i] # ProvidedTopics[j]
       /\ ProvidedTopics[i] \in Range(tresp.topics)
       /\ ProvidedTopics[j] \notin Range(tresp.topics)

\* C8: a failed provider call never gives an error response: the request is
\* answered 200 with the topics of the providers that did not fail, capped
\* (an empty list if none is left).
C8_ProviderFailureSwallowed ==
  (tresp.newsCall.called /\ ~tresp.newsCall.ok) =>
    /\ tresp.code = 200
    /\ tresp.topics =
         slice0(ProvidedTopics, IF tresp.op = "trending" THEN TrendingCap ELSE tresp.limit)
    /\ \A i \in 1..Len(tresp.topics) : tresp.topics[i].source # "News API"

\* the news call failed and the answer holds the other providers' topics
C8_Witness ==
  /\ tresp.newsCall.called
  /\ ~tresp.newsCall.ok
  /\ tresp.op = "trending"
  /\ tresp.code = 200
  /\ Len(tresp.topics) >= 2

\* the trending list is never empty and never the static fallback, whatever the
\* news call does: the simulated providers always return one item each
TrendingNeverFallsBack ==
  (tresp.op = "trending" /\ tresp.code = 200) =>
    /\ Len(tresp.topics) >= 2
    /\ \A i \in 1..Len(tresp.topics) : tresp.topics[i].source # "Fallback"

(***************************************************************************)
(* Claims about the image aggregator (SpecImages)                          *)
(***************************************************************************)
\* C5: the images a search, trending or random request returns hold no url twice.
C5_ImagesNoDuplicateUrl ==
  iresp.code = 200 =>
    \A i, j \in 1..Len(iresp.images) :
      i # j => iresp.images[i].url # iresp.images[j].url

\* every photo call of the request failed, returned nothing or was not issued
AllPhotoCallsEmpty ==
  \A q \in 1..Len(iresp.calls) :
    /\ iresp.calls[q].unsplash.items = <<>>
    /\ iresp.calls[q].pexels.items = <<>>

\* C7: when no provider gave an image, the answer is the two placeholder
\* records built from the query text.
C7_PlaceholdersOnTotalFailure ==
  (iresp.code = 200 /\ AllPhotoCallsEmpty) =>
    iresp.images = getFallbackImages(iresp.query)

(***************************************************************************)
(* The article store                                                       *)
(***************************************************************************)
RegenerateMayChange ==
  {"title", "content", "wordCount", "tone", "writingStyle", "updatedAt", "regeneratedAt"}

\* C1: a successful regenerate by the owner creates no article, leaves every
\* other article alone, and on the regenerated article changes nothing but
\* title, content, wordCount, tone, writingStyle, updatedAt and regeneratedAt
\* (so id, owner, createdAt, topic, niche, images, blogPost and analytics keep
\* their values).
C1_RegeneratePreservesIdentity ==
  [][(last'.op = "regenerate" /\ last'.code = 200) =>
       /\ DOMAIN articles' = DOMAIN articles
       /\ \A i \in DOMAIN articles \ {last'.id} : articles'[i] = articles[i]
       /\ \A f \in DOMAIN articles[last'.id] \ RegenerateMayChange :
            articles'[last'.id][f] = articles[last'.id][f]]_vars

C1_Witness ==
  /\ last.op = "regenerate" /\ last.code = 200
  /\ articles[last.id].title = <<"N", "e", "w">>
  /\ articles[last.id].content = Words(MinWordCount, "x")
  /\ articles[last.id].regeneratedAt > 0
  /\ articles[last.id].images = <<"img1">>
  /\ articles[last.id].createdAt = 0

\* C2: a get, update, delete, regenerate or blog post request that names an
\* article owned by another user answers 404 and changes no stored article or
\* user; a list answer holds only articles of the requester.
C2_OwnershipIsolation ==
  [][/\ (/\ last'.op \in {"get", "update", "delete", "regenerate", "blogpost"}
         /\ last'.id \in DOMAIN articles
         /\ articles[last'.id].userId # last'.user)
        => (last'.code = 404 /\ articles' = articles /\ users' = users)
     /\ last'.op = "list" =>
          \A i \in DOMAIN articles : articles[i].userId # last'.user => i \notin last'.listed]_vars

C2_Witness ==
  /\ last.op = "delete" /\ last.code = 404
  /\ last.id \in DOMAIN articles
  /\ articles[last.id].userId # last.user

\* C3: a blog post request whose remote post request fails leaves the
\* article's blogPost as it was; blogPost changes only in a blog post request
\* whose remote request succeeded, and then holds the remote id and url and
\* the requested status.
C3_BlogPostWrittenOnlyOnRemoteSuccess ==
  [][/\ (last'.op = "blogpost" /\ last'.remote = "failed") =>
          \A i \in DOMAIN articles :
            i \in DOMAIN articles' /\ articles'[i].blogPost = articles[i].blogPost
     /\ \A i \in DOMAIN articles \cap DOMAIN articles' :
          articles'[i].blogPost # articles[i].blogPost =>
            /\ last'.op = "blogpost" /\ last'.id = i /\ last'.remote = "ok"
            /\ articles'[i].blogPost.postId = last'.remoteId
            /\ articles'[i].blogPost.postUrl = last'.remoteUrl
            /\ articles'[i].blogPost.status = last'.publishStatus]_vars

C3_Witness ==
  /\ last.op = "blogpost" /\ last.remote = "failed" /\ last.code = 400
  /\ articles[last.id].userId = last.user
  /\ articles[last.id].blogPost.postId = "p0"

\* C9: every stored article's wordCount is the number of pieces its content
\* splits into on whitespace runs, whatever requests were served.
C9_WordCountIsCanonical ==
  \A i \in DOMAIN articles : articles[i].wordCount = WordCount(articles[i].content)

C9_Witness ==
  /\ last.op = "update" /\ last.code = 200
  /\ articles[last.id].content = Words(3, "e")
  /\ articles[last.id].wordCount = 3

\* C10: a profile update, in particular one that changes the user's default
\* writingStyle, changes no field of any stored article.
C10_StyleIsSnapshot ==
  [][last'.op = "profile" => articles' = articles]_vars

C10_Witness ==
  /\ last.op = "profile" /\ last.code = 200
  /\ users[last.user].writingStyle.voice = "conversational"
  /\ \E i \in DOMAIN articles :
       /\ articles[i].userId = last.user
       /\ articles[i].writingStyle = DefaultStyle

(***************************************************************************)
(* The output parser                                                       *)
(***************************************************************************)
IsTitleLine(l) == startsWith(l, TITLE)
IsContentLine(l) == startsWith(l, CONTENT)
IsMarkerLine(l) == IsTitleLine(l) \/ IsContentLine(l)
HasLine(raw, P(_)) == \E k \in 1..Len(splitLines(raw)) : P(splitLines(raw)[k])

\* the lines after the first CONTENT: line, marker lines left out
RECURSIVE BodyLines(_, _)
BodyLines(ls, seen) ==
  IF Len(ls) = 0 THEN <<>>
  ELSE IF IsMarkerLine(ls[1]) THEN BodyLines(Tail(ls), seen \/ IsContentLine(ls[1]))
  ELSE IF seen THEN <<ls[1]>> \o BodyLines(Tail(ls), seen)
  ELSE BodyLines(Tail(ls), seen)

\* C14: for a text with a TITLE: line and a CONTENT: line the parser returns
\* the trimmed text after a TITLE: marker as the title (the default title
\* when that text is empty) and, as the content, the non-marker lines after
\* the CONTENT: line joined by newlines and trimmed; no line of the returned
\* content begins with a marker.
C14_MarkedTextParsed ==
  (fresp.op = "parse" /\ HasLine(fresp.raw, IsTitleLine) /\ HasLine(fresp.raw, IsContentLine)) =>
    LET ls == splitLines(fresp.raw)
    IN /\ \E k \in 1..Len(ls) :
            /\ IsTitleLine(ls[k])
            /\ LET t == trim(SubSeq(ls[k], Len(TITLE) + 1, Len(ls[k])))
               IN fresp.out.title = IF t = <<>> THEN GeneratedArticle ELSE t
       /\ fresp.out.content = trim(JoinLines(BodyLines(ls, FALSE)))
       /\ ~HasLine(fresp.out.content, IsMarkerLine)

\* C15: the parser takes its fallback branch exactly when the text has no
\* line beginning with TITLE: and none beginning with CONTENT:; with a
\* marker present the returned content is not the raw text.
C15_FallbackIffNoMarkers ==
  fresp.op = "parse" =>
    /\ fresp.fallback <=> ~HasLine(fresp.raw, IsMarkerLine)
    /\ HasLine(fresp.raw, IsMarkerLine) => fresp.out.content # fresp.raw

\* C16: for a text without markers: with a blank-line boundary the first
\* segment is the title and the remainder the content; without one the whole
\* text is the content and the title is "Generated Article".
C16_FallbackSplitsOnBlankLine ==
  (fresp.op = "parse" /\ ~HasLine(fresp.raw, IsMarkerLine)) =>
    LET parts == splitBlank(fresp.raw)
        boundary == \E i \in 1..(Len(fresp.raw) - 1) :
                      fresp.raw[i] = "\n" /\ fresp.raw[i + 1] = "\n"
    IN IF boundary /\ trim(parts.rest) # <<>>
       THEN /\ fresp.out.title = IF parts.first = <<>> THEN GeneratedArticle ELSE parts.first
            /\ fresp.out.content = trim(parts.rest)
       ELSE /\ fresp.out.title = GeneratedArticle
            /\ fresp.out.content \in {fresp.raw, trim(fresp.raw)}

(***************************************************************************)
(* The prompt builder                                                      *)
(***************************************************************************)
\* one line for a style field that is present, whatever its value
PresentText(ws, f, label) == IF f \in DOMAIN ws THEN <<Piece(label, <<ws[f]>>)>> ELSE <<>>
PresentFlag(ws, f, label) ==
  IF f \in DOMAIN ws THEN <<Piece(label, <<BoolText(ws[f])>>)>> ELSE <<>>

\* C17: the prompt is the base instruction, the tone clause if a tone is
\* given, the Writing Style block, the custom-instructions clause if given,
\* and the format instruction, in that order; the block holds one line for
\* each style field present in the style, in the order voice, complexity,
\* structure, examples, quotes, callToAction (a flag set to false is
\* present), and no line for an absent field.
C17_PromptPartsInOrder ==
  (fresp.op = "prompt" /\ fresp.args.writingStyle # Absent) =>
    LET a == fresp.args
        ws == a.writingStyle
    IN fresp.out =
         <<Piece("Write a -word article about in the niche.",
                 <<ToString(a.wordCount), a.topic, a.niche>>)>>
         \o (IF a.tone # "" THEN <<Piece("\n\nTone: Write in a tone.", <<a.tone>>)>> ELSE <<>>)
         \o <<Piece("\n\nWriting Style:", <<>>)>>
         \o PresentText(ws, "voice", "\n- Voice: ")
         \o PresentText(ws, "complexity", "\n- Complexity: ")
         \o PresentText(ws, "structure", "\n- Structure: ")
         \o PresentFlag(ws, "examples", "\n- Include examples: ")
         \o PresentFlag(ws, "quotes", "\n- Include quotes: ")
         \o PresentFlag(ws, "callToAction", "\n- Call to action: ")
         \o (IF a.customPrompt # ""
             THEN <<Piece("\n\nAdditional Instructions: ", <<a.customPrompt>>)>> ELSE <<>>)
         \o <<Piece("\n\nFormat the response as follows:\nTITLE: \n\nCONTENT:\n", <<>>)>>

(***************************************************************************)
(* Generation requests                                                     *)
(***************************************************************************)
\* the stored style overridden field by field by the request's style
MergedStyle(stored, req) ==
  IF req = Absent THEN stored
  ELSE [f \in DOMAIN stored \cup DOMAIN req |-> IF f \in DOMAIN req THEN req[f] ELSE stored[f]]

NewArticles == DOMAIN articles' \ DOMAIN articles

\* C11: in generate and in regenerate the style handed to the prompt builder
\* and the style saved on the article is the stored style (the user's for
\* generate, the article's for regenerate) overridden field by field by the
\* request's style; stored fields the request does not name are kept.
C11_StyleMergedFieldByField ==
  [][/\ (last'.op = "regenerate" /\ last'.calls > 0) =>
          last'.promptStyle = MergedStyle(articles[last'.id].writingStyle, last'.reqStyle)
     /\ (last'.op = "regenerate" /\ last'.code = 200) =>
          articles'[last'.id].writingStyle =
            MergedStyle(articles[last'.id].writingStyle, last'.reqStyle)
     /\ (last'.op = "generate" /\ last'.calls > 0) =>
          last'.promptStyle = MergedStyle(users[last'.user].writingStyle, last'.reqStyle)
     /\ (last'.op = "generate" /\ last'.code = 200) =>
          \A i \in NewArticles :
            articles'[i].writingStyle =
              MergedStyle(users[last'.user].writingStyle, last'.reqStyle)]_vars

\* C12: a generate request with topic and niche whose provider call succeeds
\* answers 200 and stores exactly one new article of the requester, a draft
\* with the request's topic and niche, the merged style and generatedAt set;
\* a request without topic or niche answers 400 and stores nothing.
C12_GeneratePersistsDraft ==
  [][last'.op = "generate" =>
       IF last'.topic = "" \/ last'.niche = ""
       THEN last'.code = 400 /\ articles' = articles
       ELSE last'.provider = "ok" =>
              /\ last'.code = 200
              /\ Cardinality(NewArticles) = 1
              /\ \A i \in DOMAIN articles : i \in DOMAIN articles' /\ articles'[i] = articles[i]
              /\ \A i \in NewArticles :
                   /\ articles'[i].userId = last'.user
                   /\ articles'[i].status = "draft"
                   /\ articles'[i].topic = last'.topic
                   /\ articles'[i].niche = last'.niche
                   /\ articles'[i].writingStyle =
                        MergedStyle(users[last'.user].writingStyle, last'.reqStyle)
                   /\ articles'[i].generatedAt = now]_vars

\* C13: a generate or regenerate request whose provider call fails answers
\* 500 and leaves every stored article and user as it was; no request asks
\* the provider more than once.
C13_GenerationAllOrNothing ==
  [][last'.op \in {"generate", "regenerate"} =>
       /\ last'.calls <= 1
       /\ (last'.provider = "failed" /\ last'.code \notin {400, 404}) =>
            /\ last'.code = 500
            /\ articles' = articles
            /\ users' = users]_vars

C13_Witness ==
  /\ last.op = "regenerate" /\ last.provider = "failed" /\ last.calls = 1
  /\ last.code = 500
  /\ articles[last.id].userId = last.user
  /\ articles[last.id] = SeedArticles[last.id]

(***************************************************************************)
(* The blog                                                                *)
(***************************************************************************)
\* C18: a user's stored connected flag becomes true only in a connect
\* request of that user whose credential probe passed; a connect request
\* whose probe fails or whose fields are missing leaves the stored users as
\* they were.
C18_ConnectedOnlyAfterProbe ==
  [][/\ \A u \in DOMAIN users :
          (u \in DOMAIN users' /\ users'[u].wordpress.connected
             /\ ~users[u].wordpress.connected)
          => (last'.op = "connect" /\ last'.user = u /\ last'.probe = "ok")
     /\ (last'.op = "connect" /\ last'.probe # "ok") => users' = users]_vars

\* C19: a blog post request reaches the remote create-post request only
\* when the requester's blog is connected and the article exists and is the
\* requester's; otherwise it answers an error, makes no remote request and
\* changes no stored user or article.
C19_PostNeedsConnectionAndOwnership ==
  [][last'.op = "blogpost" =>
       LET pre == /\ users[last'.user].wordpress.connected
                  /\ last'.id \in DOMAIN articles
                  /\ articles[last'.id].userId = last'.user
       IN /\ last'.remote # "none" => pre
          /\ ~pre => /\ last'.code \in {400, 404}
                     /\ last'.remote = "none"
                     /\ users' = users
                     /\ articles' = articles]_vars

C19_Witness ==
  /\ last.op = "blogpost" /\ last.code = 400 /\ last.remote = "none"
  /\ last.id \in DOMAIN articles
  /\ articles[last.id].userId = last.user
  /\ ~users[last.user].wordpress.connected

\* C20: a list-posts, update-post or delete-post request whose remote
\* request fails reports the invalid-credentials message for status 401, the
\* REST-API-unavailable message for 404 and the generic connection-failure
\* message for any other failure.
C20_ThreeWayErrorMessage ==
  (last.op \in {"listposts", "updatepost", "deletepost"} /\ last.remote = "failed") =>
    last.error = IF last.remoteStatus = 401 THEN InvalidCredentials
                 ELSE IF last.remoteStatus = 404 THEN RestApiNotFound
                 ELSE ConnectionFailed

(***************************************************************************)
(* The rate limiter                                                        *)
(***************************************************************************)
\* the admitted requests of ip logged in adm whose time is less than WindowMs
\* before t
InWindow(adm, ip, t) == {k \in 1..Len(adm) : adm[k].ip = ip /\ t - adm[k].t < WindowMs}

\* the stamps the Map holds for ip that are less than WindowMs before t
Counted(requests, ip, t) ==
  IF ip \in DOMAIN requests
  THEN {k \in 1..Len(requests[ip]) : t - requests[ip][k] < WindowMs}
  ELSE {}

\* C21: a request is admitted only if fewer than max requests of its IP were
\* admitted less than windowMs before it, so no window of length windowMs
\* holds more than max admitted requests of one IP; a request over the limit
\* is answered 429 with retryAfter = ceil(windowMs / 1000), is not passed on
\* and is not recorded.
C21_AtMostMaxPerWindow ==
  [][LET r == limiter'.resp
     IN /\ r.code = 200 =>
             /\ Cardinality(InWindow(limiter.admitted, r.ip, r.t)) < MaxPerWindow
             /\ r.next
        /\ r.code = 429 =>
             /\ r.retryAfter = CeilDiv(WindowMs, 1000)
             /\ ~r.next
             /\ limiter'.admitted = limiter.admitted
             /\ Cardinality(Counted(limiter'.requests, r.ip, r.t))
                  = Cardinality(Counted(limiter.requests, r.ip, r.t))
        /\ \A ip \in Ips, w \in 0..MaxClock :
             Cardinality({k \in 1..Len(limiter'.admitted) :
                            /\ limiter'.admitted[k].ip = ip
                            /\ w <= limiter'.admitted[k].t
                            /\ limiter'.admitted[k].t < w + WindowMs}) <= MaxPerWindow]_vars

C21_Witness ==
  /\ limiter.resp.code = 429
  /\ Cardinality(InWindow(limiter.admitted, limiter.resp.ip, limiter.resp.t)) = MaxPerWindow

\* C29: whether a request of an IP is admitted depends only on the times of
\* the requests of that IP admitted before it (it is admitted exactly when
\* fewer than max of them are less than windowMs old, hence again once
\* windowMs has passed since the oldest counted one); a request of another
\* IP, and the cleanup it runs, changes none of the stamps of this IP that
\* are still inside its window.
C29_AccountingIsPerIp ==
  [][LET r == limiter'.resp
     IN /\ r.code = 200 <=>
             Cardinality(InWindow(limiter.admitted, r.ip, r.t)) < MaxPerWindow
        /\ \A ip \in Ips \ {r.ip} :
             {limiter'.requests[ip][k] : k \in Counted(limiter'.requests, ip, r.t)}
               = {limiter.requests[ip][k] : k \in Counted(limiter.requests, ip, r.t)}
        /\ \A ip \in Ips :
             Cardinality(Counted(limiter'.requests, ip, r.t))
               = Cardinality(InWindow(limiter'.admitted, ip, r.t))]_vars

C29_Witness ==
  /\ limiter.resp.ip = "b"
  /\ "a" \notin DOMAIN limiter.requests
  /\ \E k \in 1..Len(limiter.admitted) : limiter.admitted[k].ip = "a"
  /\ \E k \in 1..Len(limiter.admitted) :
       limiter.admitted[k].ip = "b" /\ limiter.admitted[k].t < limiter.resp.t

(***************************************************************************)
(* Result sizes                                                            *)
(***************************************************************************)
\* the images the photo calls of the answered request returned
ProvidedImages ==
  UNION {Range(iresp.calls[q].unsplash.items) \cup Range(iresp.calls[q].pexels.items) :
           q \in 1..Len(iresp.calls)}

\* C24: trending topics returns at most 20 items, topic search at most limit
\* items, and image search, trending images and random images at most
\* perPage, limit and count items; every returned item was returned by a
\* provider of the request or is a fallback item.
C24_ResultsCapped ==
  /\ (tresp.op = "trending" /\ tresp.code = 200) =>
       /\ Len(tresp.topics) <= 20
       /\ Range(tresp.topics) \subseteq
            Range(ProvidedTopics) \cup Range(getFallbackTopics(tresp.niche))
  /\ (tresp.op = "search" /\ tresp.code = 200) =>
       /\ Len(tresp.topics) <= tresp.limit
       /\ Range(tresp.topics) \subseteq Range(ProvidedTopics)
  /\ iresp.code = 200 =>
       /\ Len(iresp.images) <= iresp.size
       /\ Range(iresp.images) \subseteq
            ProvidedImages \cup Range(getFallbackImages(iresp.query))

\* more distinct topics were provided than the cap keeps
C24_Witness ==
  /\ tresp.op = "trending" /\ tresp.code = 200
  /\ Len(tresp.topics) = 20
  /\ Cardinality(Range(ProvidedTopics)) > 20

(***************************************************************************)
(* Claims about accounts and the middlewares (SpecAuth)                    *)
(***************************************************************************)
\* C22: a complete register request that repeats a stored user's email or
\* username is answered with 400 and creates no user, and no two stored users share an
\* email or a username.
C22_DuplicateRegisterIs400 ==
  [][/\ (/\ last'.op = "register"
         /\ last'.username # "" /\ last'.email # "" /\ last'.password # <<>>
         /\ \E u \in DOMAIN users :
              users[u].email = last'.email \/ users[u].username = last'.username)
        => (last'.code = 400 /\ users' = users)
     /\ \A u, v \in DOMAIN users' :
          u # v => (users'[u].email # users'[v].email
                    /\ users'[u].username # users'[v].username)]_vars

\* C23: auth and adminAuth answer a missing, invalid or expired token and a
\* deactivated or nonexistent account with 401, and adminAuth answers an
\* authenticated non-admin with 403, in all those cases without invoking the
\* handler or setting req.user; the handler runs only for a valid token of
\* an active user.
C23_MiddlewareRejections ==
  last.op \in {"auth", "adminAuth"} =>
    LET t == last.token
        known == t.kind = "valid" /\ t.id \in DOMAIN users
        rejected == ~known \/ ~users[t.id].isActive
    IN /\ rejected => (last.code = 401 /\ ~last.next /\ last.reqUser = "")
       /\ (~rejected /\ last.op = "adminAuth" /\ ~isAdmin(users[t.id]))
            => (last.code = 403 /\ ~last.next /\ last.reqUser = "")
       /\ last.next => (known /\ users[t.id].isActive /\ last.reqUser = t.id)

\* C28: after a successful register with email e and password p, a login
\* with e and p succeeds and returns a token, and the stored credential is
\* never the plaintext p.
C28_RegisterThenLogin ==
  [][/\ (/\ last.op = "register" /\ last.code = 200
         /\ last'.op = "login"
         /\ last'.email = last.email /\ last'.password = last.password)
        => (last'.code = 200 /\ last'.issued.kind = "valid")
     /\ (last'.op = "register" /\ last'.code = 200)
        => \A u \in {v \in DOMAIN users' : users'[v].email = last'.email} :
             users'[u].password # last'.password]_vars

(***************************************************************************)
(* Claims about the analytics counters (SpecAnalytics)                     *)
(***************************************************************************)
\* C27: no analytics counter of an article ever decreases, whatever the
\* incrementAnalytics call, and a call with an unknown type raises an error
\* and leaves all counters unchanged.
C27_CountersNeverDecrease ==
  [][/\ \A id \in DOMAIN articles \cap DOMAIN articles', k \in AnalyticsTypes :
          articles'[id].analytics[k] >= articles[id].analytics[k]
     /\ (last'.op = "incrementAnalytics" /\ last'.type \notin AnalyticsTypes)
        => (last'.error # "" /\ articles' = articles)]_vars

(***************************************************************************)
(* Claims about the featured image of a blog post (Spec)                   *)
(***************************************************************************)
\* the last request was a blog post that asked for a featured image whose
\* download or upload failed, by a connected user for an article of theirs
FeaturedUploadFailed ==
  /\ last.op = "blogpost"
  /\ last.featuredImage # ""
  /\ last.upload \in {"downloadFailed", "uploadFailed"}

C26_EmptyAnswerIsGenerationError ==
  [][(last'.op \in {"generate", "regenerate"} /\ last'.text \in {"null", "empty"}) =>
       /\ last'.gen = "failed"
       /\ last'.code = 500
       /\ articles' = articles]_vars

(***************************************************************************)
(* Claims about concurrent requests on one article (SpecRace)              *)
(***************************************************************************)
AllCallsDone == \A c \in RaceCalls : inflight[c].stage = "done"

\* C30: once all concurrent requests on an article have completed, a
\* regenerate among them, its wordCount is the word count of its content, and its
\* title and content are those of one request's document (or the original
\* ones when no request saved).
C30_RaceLeavesConsistentArticle ==
  (AllCallsDone /\ \E c \in RaceCalls : inflight[c].kind = "regenerate") =>
    LET a == articles[RaceArticle]
    IN /\ a.wordCount = WordCount(a.content)
       /\ \/ \E c \in RaceCalls :
               /\ inflight[c].ok
               /\ a.title = inflight[c].doc.title
               /\ a.content = inflight[c].doc.content
          \/ /\ \A c \in RaceCalls : ~inflight[c].ok
             /\ a = SeedArticles[RaceArticle]

============================================================================
